---- MODULE Spec2Model ----
(***************************************************************************)
(* Model of the Yellowstone trip planner (mannamraju/AI_Travel_Planner):   *)
(* the orchestrator's request pipeline, its response aggregation, the      *)
(* weather, calendar and route strategies, and the adapters' parsing of    *)
(* their LLM's replies.                                                    *)
(*                                                                         *)
(* Specifications:                                                         *)
(*   Spec         POST /api/plan-trip: validation, OrchestratorAgent       *)
(*                .plan_trip, the agent executor's tool loop, the          *)
(*                sub-agents per configured mode, _format_response, the    *)
(*                endpoint's response.                                     *)
(*   SpecFormat   _format_response / _extract_json_section applied to      *)
(*                arbitrary agent responses.                               *)
(*   SpecWeather  the four forecast generators, one loop iteration per     *)
(*                step.                                                    *)
(*   SpecCalendar the three calendar strategies, the optimizer tool with   *)
(*                one loop iteration per step.                             *)
(*   SpecRoute    the four route strategies, the planner tool and the mock *)
(*                endpoint with one loop iteration per step.               *)
(*   SpecParse    the adapters' _parse_azure_response on replies of        *)
(*                different lengths.                                       *)
(*   SpecAdapter  the configuration singleton, the adapters' constructors  *)
(*                and the branch each adapter call takes.                  *)
(***************************************************************************)
EXTENDS Integers, Sequences, FiniteSets, TLC

VARIABLES
    \* ---- process configuration (config.py) ----
    app_mode,        \* Config.app_mode: 1 LOCAL_DUMMY, 2 AZURE_SUGGESTIONS, 3 LIVE_API
    \* ---- one request through POST /api/plan-trip ----
    pc,              \* position of the request's task
    request,         \* the request body
    preferences,     \* plan_trip's local `preferences`
    input_query,     \* what plan_trip tells the agent about the request
    iterations,      \* tool-loop iterations the agent executor has used
    stage,           \* per orchestrator tool: status, last input, last result
    agent_response,  \* what self.agent.ainvoke returned
    trip_plan,       \* what plan_trip returned
    exception,       \* the exception plan_trip raised, "" for none
    http,            \* the endpoint's response
    \* ---- _format_response on its own ----
    f_pc, f_response, f_plan,
    \* ---- a forecast generator run ----
    w_pc, w_kind, w_response, w_start_date, w_end_date, w_current_date,
    w_weather_options, w_forecasts,
    \* ---- a calendar strategy run ----
    c_pc, c_kind, c_travel_window_start, c_travel_window_end, c_trip_duration_days,
    c_preferred_day_of_week_start, c_current_date, c_possible_dates, c_result,
    \* ---- a route strategy run ----
    r_pc, r_kind, r_origin, r_destination, r_waypoints, r_i, r_route_segments,
    r_total_distance, r_total_duration, r_result,
    \* ---- an adapter turning its LLM's reply into a result ----
    p_pc, p_adapter, p_response, p_result,
    \* ---- the configuration singleton and the adapters built from it ----
    a_env,           \* the APP_MODE environment variable
    a_config,        \* Config._instance.app_mode, 0 while there is no instance
    a_built,         \* per adapter, what its constructor built
    a_last,          \* the last adapter call and the path it took
    a_calls          \* the number of adapter calls so far

reqVars == <<app_mode, pc, request, preferences, input_query, iterations, stage,
             agent_response, trip_plan, exception, http>>
fmtVars == <<f_pc, f_response, f_plan>>
wxVars  == <<w_pc, w_kind, w_response, w_start_date, w_end_date, w_current_date,
             w_weather_options, w_forecasts>>
calVars == <<c_pc, c_kind, c_travel_window_start, c_travel_window_end,
             c_trip_duration_days, c_preferred_day_of_week_start, c_current_date,
             c_possible_dates, c_result>>
rtVars  == <<r_pc, r_kind, r_origin, r_destination, r_waypoints, r_i, r_route_segments,
             r_total_distance, r_total_duration, r_result>>
parVars == <<p_pc, p_adapter, p_response, p_result>>
adVars  == <<a_env, a_config, a_built, a_last, a_calls>>
vars    == <<reqVars, fmtVars, wxVars, calVars, rtVars, parVars, adVars>>

(***************************************************************************)
(* Dates.  A date string "YYYY-MM-DD" is the triple <<Y, M, D>> of its     *)
(* fields; a datetime is a day ordinal.  strptime checks the fields and    *)
(* converts to the ordinal, strftime converts back, timedelta arithmetic   *)
(* is integer arithmetic on ordinals.                                      *)
(***************************************************************************)
IsLeap(y) == (y % 4 = 0 /\ y % 100 # 0) \/ (y % 400 = 0)

DaysInMonth(y, m) ==
    CASE m \in {1, 3, 5, 7, 8, 10, 12} -> 31
      [] m \in {4, 6, 9, 11}           -> 30
      [] OTHER                         -> IF IsLeap(y) THEN 29 ELSE 28

\* days in the years before year y (proleptic Gregorian, as datetime counts)
DaysBeforeYear(y) ==
    365 * (y - 1) + ((y - 1) \div 4) - ((y - 1) \div 100) + ((y - 1) \div 400)

RECURSIVE DaysBeforeMonth(_, _)
DaysBeforeMonth(y, m) ==
    IF m <= 1 THEN 0 ELSE DaysBeforeMonth(y, m - 1) + DaysInMonth(y, m - 1)

\* datetime.strptime(s, "%Y-%m-%d") accepts s (otherwise it raises ValueError)
ValidDateStr(s) ==
    /\ s[1] \in 1..9999
    /\ s[2] \in 1..12
    /\ s[3] \in 1..DaysInMonth(s[1], s[2])

\* datetime.strptime(s, "%Y-%m-%d"), for an accepted s: the day ordinal
strptime(s) == DaysBeforeYear(s[1]) + DaysBeforeMonth(s[1], s[2]) + s[3]

RECURSIVE YearOf(_, _)
YearOf(n, y) == IF n <= DaysBeforeYear(y + 1) THEN y ELSE YearOf(n, y + 1)

RECURSIVE MonthOf(_, _, _)
MonthOf(n, y, m) ==
    IF n <= DaysInMonth(y, m) THEN <<m, n>> ELSE MonthOf(n - DaysInMonth(y, m), y, m + 1)

\* d.strftime("%Y-%m-%d") of the datetime with day ordinal n
strftime(n) ==
    LET y  == YearOf(n, (n \div 366) + 1)
        mo == MonthOf(n - DaysBeforeYear(y), y, 1)
    IN  <<y, mo[1], mo[2]>>

(***************************************************************************)
(* Weather forecasts.                                                      *)
(***************************************************************************)
\* a slice that keeps all of the text
Take_everything(text, n) == text

\* text[:n]
Take(text, n) == IF Len(text) <= n THEN text ELSE SubSeq(text, 1, n)

DescriptionChars == 100

\* for _ in range(days): append the entry for current_date; current_date += 1 day
RECURSIVE ForRange(_, _, _, _)
ForRange(days, current_date, forecasts, entry) ==
    IF days <= 0 THEN forecasts
    ELSE ForRange(days - 1, current_date + 1,
                  Append(forecasts, [date |-> strftime(current_date)] @@ entry),
                  entry)

\* WeatherAgent._get_dummy_forecast
WeatherAgent_get_dummy_forecast(start_date, end_date) ==
    LET start == strptime(start_date)
        end   == strptime(end_date)
        days  == (end - start) + 1
    IN  [location    |-> "Yellowstone National Park",
         forecasts   |-> ForRange(days, start, <<>>,
                            [condition |-> "Sunny", high_temp_f |-> 75, low_temp_f |-> 45,
                             precipitation_chance |-> 10]),
         data_source |-> "Local dummy data"]

\* WeatherAgent._parse_azure_response
WeatherAgent_parse_azure_response(response, start_date, end_date) ==
    LET start == strptime(start_date)
        end   == strptime(end_date)
        days  == (end - start) + 1
    IN  [location    |-> "Yellowstone National Park",
         forecasts   |-> ForRange(days, start, <<>>,
                            [condition |-> "Partly Cloudy", high_temp_f |-> 75,
                             low_temp_f |-> 45, precipitation_chance |-> 20,
                             description |-> Take(response, DescriptionChars)]),
         advisory    |-> "Based on typical weather patterns for this time of year.",
         data_source |-> "Azure OpenAI weather pattern analysis"]

\* weather_options of WeatherTool._simulate_weather_data
ToolWeatherOptions ==
    << [condition |-> "Sunny",        description |-> "Clear sky",     high_temp |-> 75, low_temp |-> 45, precipitation |-> 0],
       [condition |-> "Clouds",       description |-> "Partly cloudy", high_temp |-> 70, low_temp |-> 42, precipitation |-> 10],
       [condition |-> "Thunderstorm", description |-> "Thunderstorms", high_temp |-> 65, low_temp |-> 40, precipitation |-> 70],
       [condition |-> "Clear",        description |-> "Clear sky",     high_temp |-> 72, low_temp |-> 44, precipitation |-> 0],
       [condition |-> "Rain",         description |-> "Light rain",    high_temp |-> 60, low_temp |-> 38, precipitation |-> 80] >>

\* weather_options of the mock endpoint GET /weather/{location}
MockWeatherOptions ==
    << [condition |-> "Sunny",         description |-> "Clear sky",        high_temp |-> 75, low_temp |-> 45, precipitation |-> 0],
       [condition |-> "Partly Cloudy", description |-> "Some clouds",      high_temp |-> 70, low_temp |-> 42, precipitation |-> 10],
       [condition |-> "Thunderstorm",  description |-> "Scattered storms", high_temp |-> 65, low_temp |-> 40, precipitation |-> 70],
       [condition |-> "Rain",          description |-> "Light rain",       high_temp |-> 60, low_temp |-> 38, precipitation |-> 80] >>

\* the draws of random.randint(-5, 5) and random.randint(-3, 3) the model follows:
\* the two ends of each range
HighTempDraws == {-5, 5}
LowTempDraws  == {-3, 3}

\* weather = random.choice(weather_options); weather["high_temp"] += ...;
\* weather["low_temp"] += ...  -- `weather` is the list's own dict, so the list changes
VaryOption(weather_options, k, dh, dl) ==
    [weather_options EXCEPT ![k].high_temp = @ + dh, ![k].low_temp = @ + dl]

\* the entry appended for current_date from the (already varied) option
SimulatedEntry(current_date, weather) ==
    [date                 |-> strftime(current_date),
     condition            |-> weather.condition,
     description          |-> weather.description,
     high_temp_f          |-> weather.high_temp,
     low_temp_f           |-> weather.low_temp,
     precipitation_chance |-> weather.precipitation]

\* the loop test of the two simulated generators
WhileTest_strict(current_date, end) == current_date < end
WhileTest(current_date, end) == current_date <= end

(***************************************************************************)
(* Text.  A text (an LLM reply, the agent's output) is a sequence of       *)
(* tokens: braces, colon, comma, a JSON scalar, a prose word, and a        *)
(* section name written in double quotes, in single quotes, or bare.       *)
(***************************************************************************)
Tok(k, n) == [k |-> k, n |-> n]
LB      == Tok("{", "")
RB      == Tok("}", "")
Colon   == Tok(":", "")
Comma   == Tok(",", "")
Scalar  == Tok("scalar", "")
Word    == Tok("word", "")
DQ(n)   == Tok("dq", n)      \* "n"
SQ(n)   == Tok("sq", n)      \* 'n'
Bare(n) == Tok("bare", n)    \* n

\* replies of a sub-agent's LLM the model follows
SubAgentReplies == { <<>>, <<Word, Word>> }

(***************************************************************************)
(* Python values as the aggregation step sees them.                        *)
(***************************************************************************)
None       == [t |-> "None"]
Str(s)     == [t |-> "str", s |-> s]
IntV(n)    == [t |-> "int", n |-> n]
Number     == [t |-> "number"]
Dict(kv)   == [t |-> "dict", items |-> kv]     \* kv: a function from keys to values
List(xs)   == [t |-> "list", elems |-> xs]

EmptyDict  == Dict(<<>>)
EmptyList  == List(<<>>)

\* key in d, d[key]
HasKey(d, key) == d.t = "dict" /\ key \in DOMAIN d.items

\* d[key] = v
Put(kv, key, v) == [x \in (DOMAIN kv) \cup {key} |-> IF x = key THEN v ELSE kv[x]]

\* bool(v): the test `v or default` makes
Truthy(v) ==
    CASE v.t = "dict" -> DOMAIN v.items # {}
      [] v.t = "list" -> Len(v.elems) > 0
      [] v.t = "str"  -> Len(v.s) > 0
      [] v.t = "None" -> FALSE
      [] OTHER        -> TRUE

\* `v or default`
Or(v, default) == IF Truthy(v) THEN v ELSE default

(***************************************************************************)
(* json.loads on a token sequence: an object is { } or                     *)
(* { "key" : value , ... }, a value is a scalar, a string or an object.    *)
(***************************************************************************)
ParseFail == [ok |-> FALSE, v |-> None, next |-> 0]
ParseOk(v, next) == [ok |-> TRUE, v |-> v, next |-> next]

RECURSIVE ParseValue(_, _)
RECURSIVE ParseMembers(_, _, _)

ParseValue(t, i) ==
    IF i > Len(t) THEN ParseFail
    ELSE CASE t[i].k = "scalar" -> ParseOk(Number, i + 1)
           [] t[i].k = "dq"     -> ParseOk(Str(<<t[i]>>), i + 1)
           [] t[i].k = "{"      ->
                IF i + 1 <= Len(t) /\ t[i + 1].k = "}"
                THEN ParseOk(EmptyDict, i + 2)
                ELSE ParseMembers(t, i + 1, <<>>)
           [] OTHER             -> ParseFail

ParseMembers(t, i, kv) ==
    IF i + 1 > Len(t) \/ t[i].k # "dq" \/ t[i + 1].k # ":" THEN ParseFail
    ELSE LET r == ParseValue(t, i + 2)
         IN  IF ~r.ok \/ r.next > Len(t) THEN ParseFail
             ELSE LET kv2 == Put(kv, t[i].n, r.v)
                  IN  CASE t[r.next].k = "}" -> ParseOk(Dict(kv2), r.next + 1)
                        [] t[r.next].k = "," -> ParseMembers(t, r.next + 1, kv2)
                        [] OTHER             -> ParseFail

\* json.loads(json_str): the value, or ok = FALSE where it raises
json_loads(json_str) ==
    LET r == ParseValue(json_str, 1)
    IN  IF r.ok /\ r.next = Len(json_str) + 1 THEN r ELSE ParseFail

(***************************************************************************)
(* OrchestratorAgent._extract_json_section and _format_response            *)
(***************************************************************************)
SectionNames ==
    {"recommended_dates", "weather_forecast", "route_plan", "restaurant_recommendations"}

\* `name in text`: the bare name is a substring of each of its quoted forms
Mentions(text, name) == \E i \in 1..Len(text) : text[i].n = name

\* f'"{name}"' in text or f"'{name}'" in text
MentionsQuoted(text, name) ==
    \E i \in 1..Len(text) : text[i].n = name /\ text[i].k \in {"dq", "sq"}

\* text.find('{'): the index of the first brace, 0 for -1
FindBrace(text) ==
    IF \E i \in 1..Len(text) : text[i].k = "{"
    THEN CHOOSE i \in 1..Len(text) :
             text[i].k = "{" /\ \A j \in 1..(i - 1) : text[j].k # "{"
    ELSE 0

\* the loop `for i in range(start_idx + 1, len(text))`: the index where
\* open_count reaches 0, or 0 when the loop ends without it
RECURSIVE MatchBrace(_, _, _)
MatchBrace(text, i, open_count) ==
    IF i > Len(text) THEN 0
    ELSE IF text[i].k = "{" THEN MatchBrace(text, i + 1, open_count + 1)
    ELSE IF text[i].k = "}"
         THEN IF open_count - 1 = 0 THEN i ELSE MatchBrace(text, i + 1, open_count - 1)
    ELSE MatchBrace(text, i + 1, open_count)

\* `return {}` whatever the section
EmptyFor_always_map(section_name) == EmptyDict

\* the value both `return {} if section_name in [...] else []` lines give
EmptyFor(section_name) ==
    IF section_name \in {"recommended_dates", "route_plan"} THEN EmptyDict ELSE EmptyList

\* OrchestratorAgent._extract_json_section(text, section_name)
extract_json_section(text, section_name) ==
    IF MentionsQuoted(text, section_name)
    THEN LET start_idx == FindBrace(text)
             i         == IF start_idx = 0 THEN 0 ELSE MatchBrace(text, start_idx + 1, 1)
         IN  IF start_idx # 0 /\ i # 0
             THEN LET r == json_loads(SubSeq(text, start_idx, i))
                  IN  IF r.ok THEN r.v ELSE EmptyFor(section_name)
             ELSE EmptyFor(section_name)
    ELSE EmptyFor(section_name)

\* the section as the try block of _format_response leaves it
Extracted(output, section_name) ==
    IF Mentions(output, section_name)
    THEN extract_json_section(output, section_name)
    ELSE EmptyFor(section_name)

UnableToExtract == "Unable to extract structured date recommendations."

\* _format_response without `or []` on a forecast that was never set
PlanDict_no_forecast_default(starting_location, trip_duration_days, rd, wf, rp, rr, raw_plan) ==
    [starting_location          |-> Str(starting_location),
     duration_days              |-> IntV(trip_duration_days),
     recommended_dates          |-> Or(rd, Dict([reasoning |-> Str(UnableToExtract)])),
     weather_forecast           |-> IF Truthy(wf) THEN wf ELSE None,
     route_plan                 |-> Or(rp, EmptyDict),
     restaurant_recommendations |-> Or(rr, EmptyList),
     raw_plan                   |-> raw_plan]

\* the dict _format_response builds, given what the try block left in the
\* four locals and the value of agent_response["output"]
PlanDict(starting_location, trip_duration_days, rd, wf, rp, rr, raw_plan) ==
    [starting_location          |-> Str(starting_location),
     duration_days              |-> IntV(trip_duration_days),
     recommended_dates          |-> Or(rd, Dict([reasoning |-> Str(UnableToExtract)])),
     weather_forecast           |-> Or(wf, EmptyList),
     route_plan                 |-> Or(rp, EmptyDict),
     restaurant_recommendations |-> Or(rr, EmptyList),
     raw_plan                   |-> raw_plan]

\* OrchestratorAgent._format_response: [raised, exc, plan]
format_response(response, starting_location, trip_duration_days) ==
    IF ~HasKey(response, "output")
    THEN \* line 269 raises inside the try and is caught; line 295 raises again
         [raised |-> TRUE, exc |-> "KeyError", plan |-> None]
    ELSE LET output == response.items["output"]
         IN  IF output.t = "str"
             THEN [raised |-> FALSE, exc |-> "",
                   plan |-> PlanDict(starting_location, trip_duration_days,
                                Extracted(output.s, "recommended_dates"),
                                Extracted(output.s, "weather_forecast"),
                                Extracted(output.s, "route_plan"),
                                Extracted(output.s, "restaurant_recommendations"),
                                output)]
             ELSE \* `"recommended_dates" in output` raises TypeError, caught
                  [raised |-> FALSE, exc |-> "",
                   plan |-> PlanDict(starting_location, trip_duration_days,
                                EmptyDict, EmptyList, EmptyDict, EmptyList, output)]

(***************************************************************************)
(* The sub-agents' strategies.  Scores are in hundredths, distances in     *)
(* tenths of a mile, hours in tenths of an hour.                           *)
(***************************************************************************)
ReasoningChars == 200

\* _get_dummy_dates adding the whole duration to the start
CalendarAgent_get_dummy_dates_whole_duration(travel_window_start, travel_window_end, trip_duration_days, draw) ==
    LET start             == strptime(travel_window_start)
        recommended_start == start + draw
        recommended_end   == recommended_start + trip_duration_days
    IN  [recommended_date_ranges |->
            << [start_date     |-> strftime(recommended_start),
                end_date       |-> strftime(recommended_end),
                total_score    |-> 85,
                weather_score  |-> 80,
                crowd_score    |-> 90,
                wildlife_score |-> 85] >>,
         reasoning   |-> "Dummy recommendation for testing",
         data_source |-> "Local dummy data"]

\* CalendarAgent._get_dummy_dates, with `draw` the value of random.randint(7, 14)
CalendarAgent_get_dummy_dates(travel_window_start, travel_window_end, trip_duration_days, draw) ==
    LET start             == strptime(travel_window_start)
        recommended_start == start + draw
        recommended_end   == recommended_start + (trip_duration_days - 1)
    IN  [recommended_date_ranges |->
            << [start_date     |-> strftime(recommended_start),
                end_date       |-> strftime(recommended_end),
                total_score    |-> 85,
                weather_score  |-> 80,
                crowd_score    |-> 90,
                wildlife_score |-> 85] >>,
         reasoning   |-> "Dummy recommendation for testing",
         data_source |-> "Local dummy data"]

Max(a, b) == IF a >= b THEN a ELSE b

\* the loop `for i in range(3)` of CalendarAgent._parse_azure_response
RECURSIVE CalendarRanges(_, _, _, _, _, _)
CalendarRanges(i, current_date, end, days_range, trip_duration_days, recommendations) ==
    IF i >= 3 THEN recommendations
    ELSE IF current_date + trip_duration_days <= end
         THEN CalendarRanges(i + 1, current_date + Max(10, days_range \div 4), end,
                  days_range, trip_duration_days,
                  Append(recommendations,
                      [start_date     |-> strftime(current_date),
                       end_date       |-> strftime(current_date + (trip_duration_days - 1)),
                       total_score    |-> 90 - (i * 5),
                       weather_score  |-> 88 - (i * 3),
                       crowd_score    |-> 85 - (i * 4),
                       wildlife_score |-> 92 - (i * 3)]))
         ELSE CalendarRanges(i + 1, current_date, end, days_range, trip_duration_days,
                  recommendations)

\* CalendarAgent._parse_azure_response
CalendarAgent_parse_azure_response(response, travel_window_start, travel_window_end, trip_duration_days) ==
    LET start      == strptime(travel_window_start)
        end        == strptime(travel_window_end)
        days_range == end - start
    IN  [recommended_date_ranges |->
            CalendarRanges(0, start, end, days_range, trip_duration_days, <<>>),
         reasoning   |-> Take(response, ReasoningChars),
         data_source |-> "Azure OpenAI analysis of historical patterns"]

(***************************************************************************)
(* CalendarOptimizerTool.  Inside the tool a score is held in thousandths; *)
(* the weighted total is held in ten-thousandths; what the tool returns is *)
(* rounded to hundredths.                                                  *)
(***************************************************************************)
\* round(): to the nearest multiple of `unit`, a tie to the even one
Round(n, unit) ==
    LET q == n \div unit
        r == n % unit
    IN  IF 2 * r < unit THEN q
        ELSE IF 2 * r > unit THEN q + 1
        ELSE IF q % 2 = 0 THEN q ELSE q + 1

Min(a, b) == IF a <= b THEN a ELSE b

\* datetime.weekday(): Monday is 0
weekday(n) == (n - 1) % 7

\* strftime("%A").lower()
day_name(n) ==
    <<"monday", "tuesday", "wednesday", "thursday", "friday", "saturday", "sunday">>[weekday(n) + 1]

\* str.lower() on the day names a caller passes
lower(s) ==
    CASE s = "Sunday"   -> "sunday"
      [] s = "Saturday" -> "saturday"
      [] OTHER          -> s

\* random.uniform(lo, hi) with the draw u in thousandths of the interval
uniform(lo, hi, u) == lo + ((hi - lo) * u) \div 1000

\* the random draws of one loop iteration: per score, where the base falls
\* in its interval (u, in thousandths of it) and the noise of
\* random.uniform(-0.1, 0.1), in thousandths
ScoreDraws ==
    { [weather |-> <<0, -100>>,   crowd |-> <<0, -100>>,  wildlife |-> <<0, -100>>],
      [weather |-> <<1000, 100>>, crowd |-> <<1000, 100>>, wildlife |-> <<1000, 100>>],
      [weather |-> <<500, 37>>,   crowd |-> <<250, -13>>, wildlife |-> <<750, 64>>],
      [weather |-> <<854, -46>>,  crowd |-> <<120, 71>>,  wildlife |-> <<333, 5>>] }

\* CalendarOptimizerTool._simulate_weather_score
simulate_weather_score(start_date, draw) ==
    LET month      == strftime(start_date)[2]
        base_score == IF month \in {7, 8} THEN uniform(800, 1000, draw[1])
                      ELSE IF month \in {6, 9} THEN uniform(600, 900, draw[1])
                      ELSE IF month \in {5, 10} THEN uniform(300, 700, draw[1])
                      ELSE uniform(100, 500, draw[1])
    IN  Min(1000, base_score + draw[2])

\* CalendarOptimizerTool._simulate_crowd_score
simulate_crowd_score(start_date, draw) ==
    LET month   == strftime(start_date)[2]
        day     == strftime(start_date)[3]
        base    == IF month \in {7, 8} THEN uniform(200, 500, draw[1])
                   ELSE IF month \in {6, 9} THEN uniform(500, 800, draw[1])
                   ELSE uniform(700, 1000, draw[1])
        weekend == IF weekday(start_date) >= 5 THEN base - 100 ELSE base
        holiday == IF \/ (month = 5 /\ day >= 25)
                      \/ (month = 7 /\ day >= 1 /\ day <= 7)
                      \/ (month = 9 /\ day <= 7)
                   THEN weekend - 200 ELSE weekend
    IN  Max(100, Min(1000, holiday + draw[2]))

\* CalendarOptimizerTool._simulate_wildlife_score
simulate_wildlife_score(start_date, draw) ==
    LET month      == strftime(start_date)[2]
        base_score == IF month \in {5, 9, 10} THEN uniform(700, 1000, draw[1])
                      ELSE IF month \in {6, 7, 8} THEN uniform(500, 800, draw[1])
                      ELSE uniform(300, 700, draw[1])
    IN  Min(1000, base_score + draw[2])

\* the entry one loop iteration of CalendarOptimizerTool._run appends
PossibleDate(current_date, trip_duration_days, draws) ==
    LET trip_end       == current_date + (trip_duration_days - 1)
        weather_score  == simulate_weather_score(current_date, draws.weather)
        crowd_score    == simulate_crowd_score(current_date, draws.crowd)
        wildlife_score == simulate_wildlife_score(current_date, draws.wildlife)
        total_score    == weather_score * 4 + crowd_score * 4 + wildlife_score * 2
    IN  [start_date     |-> strftime(current_date),
         end_date       |-> strftime(trip_end),
         total_score    |-> Round(total_score, 100),
         weather_score  |-> Round(weather_score, 10),
         crowd_score    |-> Round(crowd_score, 10),
         wildlife_score |-> Round(wildlife_score, 10)]

\* list.sort(key=total_score) without reverse=True: lowest first
RECURSIVE SortByTotalScore_ascending(_)
SortByTotalScore_ascending(possible_dates) ==
    IF Len(possible_dates) <= 1 THEN possible_dates
    ELSE LET sorted == SortByTotalScore_ascending(SubSeq(possible_dates, 1, Len(possible_dates) - 1))
             x      == possible_dates[Len(possible_dates)]
             k      == Cardinality({j \in 1..Len(sorted) : sorted[j].total_score <= x.total_score})
         IN  SubSeq(sorted, 1, k) \o <<x>> \o SubSeq(sorted, k + 1, Len(sorted))

\* a sort that is not stable: of entries of equal score the one appended
\* last comes first
RECURSIVE SortByTotalScore_unstable(_)
SortByTotalScore_unstable(possible_dates) ==
    IF Len(possible_dates) <= 1 THEN possible_dates
    ELSE LET sorted == SortByTotalScore_unstable(SubSeq(possible_dates, 1, Len(possible_dates) - 1))
             x      == possible_dates[Len(possible_dates)]
             k      == Cardinality({j \in 1..Len(sorted) : sorted[j].total_score > x.total_score})
         IN  SubSeq(sorted, 1, k) \o <<x>> \o SubSeq(sorted, k + 1, Len(sorted))

\* possible_dates.sort(key=lambda x: x["total_score"], reverse=True): highest
\* first, entries of equal score in the order they were appended
RECURSIVE SortByTotalScore(_)
SortByTotalScore(possible_dates) ==
    IF Len(possible_dates) <= 1 THEN possible_dates
    ELSE LET sorted == SortByTotalScore(SubSeq(possible_dates, 1, Len(possible_dates) - 1))
             x      == possible_dates[Len(possible_dates)]
             k      == Cardinality({j \in 1..Len(sorted) : sorted[j].total_score >= x.total_score})
         IN  SubSeq(sorted, 1, k) \o <<x>> \o SubSeq(sorted, k + 1, Len(sorted))

TopCount == 3

\* CalendarOptimizerTool._generate_reasoning: the reasons it names, or the
\* no-dates sentence
generate_reasoning(recommendations) ==
    IF Len(recommendations) = 0
    THEN <<"No suitable dates found within your travel window.">>
    ELSE LET top_choice == recommendations[1]
             weather    == IF top_choice.weather_score > 70 THEN "excellent weather conditions"
                           ELSE IF top_choice.weather_score > 50 THEN "good weather conditions"
                           ELSE "acceptable weather conditions"
             crowd      == IF top_choice.crowd_score > 70 THEN "low crowd levels"
                           ELSE IF top_choice.crowd_score > 50 THEN "moderate crowd levels"
                           ELSE "higher crowd levels"
             wildlife   == IF top_choice.wildlife_score > 70
                           THEN <<"excellent wildlife viewing opportunities">>
                           ELSE IF top_choice.wildlife_score > 50
                           THEN <<"good wildlife viewing opportunities">>
                           ELSE <<>>
         IN  <<weather, crowd>> \o wildlife

\* the tail of CalendarOptimizerTool._run: sort, keep the top three, explain
CalendarOptimizerTool_result(possible_dates) ==
    LET sorted          == SortByTotalScore(possible_dates)
        recommendations == SubSeq(sorted, 1, Min(TopCount, Len(sorted)))
    IN  [recommended_date_ranges |-> recommendations,
         reasoning               |-> generate_reasoning(recommendations)]

\* RouteAgent._get_dummy_route
RouteAgent_get_dummy_route(origin) ==
    [origin               |-> origin,
     destination          |-> "Yellowstone National Park",
     total_distance_miles |-> 3500,
     total_duration_hours |-> 80,
     segments             |->
        << [from |-> origin, to |-> "West Yellowstone Entrance",
            distance_miles |-> 1500, duration_minutes |-> 180,
            road_names |-> <<"I-15", "US-20">>] >>,
     data_source          |-> "Local dummy data"]

\* RouteAgent._parse_azure_response
RouteAgent_parse_azure_response(response, origin, destination) ==
    [origin               |-> origin,
     destination          |-> destination,
     total_distance_miles |-> 4361,
     total_duration_hours |-> 80,
     recommended_entrance |-> "West Entrance",
     segments             |->
        << [from |-> origin, to |-> "West Yellowstone",
            distance_miles |-> 3254, duration_minutes |-> 300,
            road_names |-> <<"I-15 N", "US-20 E">>],
           [from |-> "West Yellowstone", to |-> "Old Faithful",
            distance_miles |-> 305, duration_minutes |-> 45,
            road_names |-> <<"US-191 N", "Grand Loop Road">>],
           [from |-> "Old Faithful", to |-> "Grand Canyon of the Yellowstone",
            distance_miles |-> 382, duration_minutes |-> 60,
            road_names |-> <<"Grand Loop Road">>] >>,
     points_of_interest   |->
        <<"Old Faithful Geyser", "Grand Prismatic Spring", "Grand Canyon of the Yellowstone">>,
     data_source          |-> "Azure OpenAI route analysis"]

(***************************************************************************)
(* RoutePlannerTool and the mock /routes/plan endpoint.  While a route is  *)
(* being built a distance is held in thousandths of a mile and a duration  *)
(* in 1/65000 of a minute (distance / 65 * 60 is then distance * 60); what *)
(* is returned is in tenths of a mile, whole minutes and tenths of an      *)
(* hour.                                                                   *)
(***************************************************************************)
\* the `locations` of RoutePlannerTool._simulate_distance
KnownLocations ==
    {"Seattle", "Boise", "Salt Lake City", "Denver", "Yellowstone National Park"}

\* math.sqrt((lat2 - lat1)**2 + (lng2 - lng1)**2) * 69.2 on the coordinates
\* of `locations`, in thousandths of a mile
KnownDistance(a, b) ==
    LET pair == {a, b}
    IN  CASE a = b                                           -> 0
          [] pair = {"Seattle", "Boise"}                     -> 506174
          [] pair = {"Seattle", "Salt Lake City"}            -> 863964
          [] pair = {"Seattle", "Denver"}                    -> 1317761
          [] pair = {"Seattle", "Yellowstone National Park"} -> 841892
          [] pair = {"Boise", "Salt Lake City"}              -> 357797
          [] pair = {"Boise", "Denver"}                      -> 820920
          [] pair = {"Boise", "Yellowstone National Park"}   -> 392528
          [] pair = {"Salt Lake City", "Denver"}             -> 482733
          [] pair = {"Salt Lake City", "Yellowstone National Park"} -> 269301
          [] pair = {"Denver", "Yellowstone National Park"}  -> 505324

DefaultDistance == 350000

\* RoutePlannerTool._simulate_distance
simulate_distance(origin, destination) ==
    IF origin \notin KnownLocations \/ destination \notin KnownLocations
    THEN DefaultDistance
    ELSE KnownDistance(origin, destination)

\* RoutePlannerTool._simulate_road_names
simulate_road_names(origin, destination) ==
    IF destination = "Yellowstone National Park" /\ origin = "Seattle"
    THEN <<"I-90 E", "I-82 E", "US-212 E">>
    ELSE IF destination = "Yellowstone National Park" /\ origin = "Boise"
    THEN <<"I-84 E", "US-20 E", "US-191 N">>
    ELSE IF destination = "Yellowstone National Park" /\ origin = "Salt Lake City"
    THEN <<"I-15 N", "US-20 E", "US-191 N">>
    ELSE IF destination = "Yellowstone National Park" /\ origin = "Denver"
    THEN <<"I-25 N", "I-80 W", "US-191 N">>
    ELSE <<"Interstate Highway", "US Highway", "Park Road">>

\* `"Yellowstone" in point` over the place names the model uses
MentionsYellowstone(point) ==
    point \in {"Yellowstone National Park", "West Yellowstone", "West Yellowstone Entrance"}

\* the road names of a segment of the mock endpoint
mock_road_names(point) ==
    IF MentionsYellowstone(point) THEN <<"US-191", "Grand Loop Road">>
    ELSE <<"I-90", "US-191">>

\* calculate_mock_distance: the values random.uniform(20, 200) takes here
MockDistanceDraws == {20000, 87654, 123449, 200000}

\* stops = [origin] + waypoints + [destination]; the mock endpoint's
\* `waypoints or []` reads a missing waypoints as the empty list, and both
\* are <<>> here
RouteStops(origin, waypoints, destination) ==
    <<origin>> \o waypoints \o <<destination>>

\* the segment appended for stops[i], stops[i+1] with both taken at the same stop
RouteSegment_same_stop(stops, i, distance, road_names) ==
    [from             |-> stops[i + 1],
     to               |-> stops[i + 1],
     distance_miles   |-> Round(distance, 100),
     duration_minutes |-> Round(distance * 60, 65000),
     road_names       |-> road_names]

\* the segment one loop iteration appends, i counted from 0 as in the code
RouteSegment(stops, i, distance, road_names) ==
    [from             |-> stops[i + 1],
     to               |-> stops[i + 2],
     distance_miles   |-> Round(distance, 100),
     duration_minutes |-> Round(distance * 60, 65000),
     road_names       |-> road_names]

\* the dict _simulate_route_data and the mock endpoint return
RouteData(route_segments, total_distance, total_duration) ==
    [segments               |-> route_segments,
     total_distance_miles   |-> Round(total_distance, 100),
     total_duration_minutes |-> Round(total_duration, 65000),
     total_duration_hours   |-> Round(total_duration, 390000)]

\* DiningAgent._get_dummy_recommendations
DiningAgent_get_dummy_recommendations(locations) ==
    [restaurants |->
        [i \in 1..Len(locations) |->
            [name |-> "Test Restaurant", cuisine |-> "American",
             price_level |-> "moderate", location |-> locations[i], rating |-> 40]],
     data_source |-> "Local dummy data"]

\* DiningAgent._parse_azure_response: two venues per location
DiningAgent_parse_azure_response(response, locations) ==
    [restaurants |->
        [i \in 1..(2 * Len(locations)) |->
            IF i % 2 = 1
            THEN [name |-> "Old Faithful Inn Dining Room", cuisine |-> "American",
                  price_level |-> "moderate", location |-> locations[(i + 1) \div 2],
                  rating |-> 45, accepts_reservations |-> TRUE]
            ELSE [name |-> "Lake Lodge Cafeteria", cuisine |-> "American",
                  price_level |-> "budget", location |-> locations[i \div 2],
                  rating |-> 40, accepts_reservations |-> FALSE]],
     data_source |-> "Azure OpenAI dining analysis"]

\* HotelAgent._parse_azure_response: two hotels per location
HotelAgent_parse_azure_response(response, locations, check_in_date, check_out_date) ==
    [hotels |->
        [i \in 1..(2 * Len(locations)) |->
            IF i % 2 = 1
            THEN [name |-> "Old Faithful Inn", location |-> locations[(i + 1) \div 2],
                  type |-> "Historic Lodge", price_per_night |-> 259, rating |-> 47,
                  availability |-> TRUE]
            ELSE [name |-> "Lake Lodge Cabins", location |-> locations[i \div 2],
                  type |-> "Cabin", price_per_night |-> 189, rating |-> 43,
                  availability |-> TRUE]],
     check_in    |-> check_in_date,
     check_out   |-> check_out_date,
     data_source |-> "Azure OpenAI accommodation analysis"]

\* what a tool hands back to the executor: a structured result or plain text
Structured(v) == [kind |-> "structured", value |-> v]
PlainText(t)  == [kind |-> "text", value |-> t]
NoResult      == [kind |-> "none", value |-> <<>>]

\* the parts of the state a specification does not use stay at rest
ReqAtRest ==
    /\ app_mode = 1 /\ pc = "rest" /\ request = <<>> /\ preferences = <<>>
    /\ input_query = <<>> /\ iterations = 0 /\ stage = <<>>
    /\ agent_response = <<>> /\ trip_plan = <<>> /\ exception = "" /\ http = <<>>
FmtAtRest == f_pc = "rest" /\ f_response = <<>> /\ f_plan = <<>>
WxAtRest ==
    /\ w_pc = "rest" /\ w_kind = "" /\ w_response = <<>> /\ w_start_date = <<>>
    /\ w_end_date = <<>> /\ w_current_date = 0 /\ w_weather_options = <<>>
    /\ w_forecasts = <<>>
CalAtRest ==
    /\ c_pc = "rest" /\ c_kind = "" /\ c_travel_window_start = <<>>
    /\ c_travel_window_end = <<>> /\ c_trip_duration_days = 0
    /\ c_preferred_day_of_week_start = "" /\ c_current_date = 0
    /\ c_possible_dates = <<>> /\ c_result = <<>>
RtAtRest ==
    /\ r_pc = "rest" /\ r_kind = "" /\ r_origin = "" /\ r_destination = ""
    /\ r_waypoints = <<>> /\ r_i = 0 /\ r_route_segments = <<>>
    /\ r_total_distance = 0 /\ r_total_duration = 0 /\ r_result = <<>>
ParAtRest == p_pc = "rest" /\ p_adapter = "" /\ p_response = <<>> /\ p_result = <<>>
AdAtRest ==
    /\ a_env = 0 /\ a_config = 0 /\ a_built = <<>> /\ a_last = <<>> /\ a_calls = 0

(***************************************************************************)
(* Spec: one request through POST /api/plan-trip.                          *)
(*                                                                         *)
(* plan_trip hands the request to an agent executor.  The executor asks    *)
(* the orchestrator's LLM what to do next; the LLM answers with one tool   *)
(* call (a tool and its arguments) or with the final text.  The executor   *)
(* runs the tool, waits for it, and asks again.  Which tool, with which    *)
(* arguments, and when to stop are the LLM's choice.                       *)
(***************************************************************************)
MaxIterations == 4

MinDuration == 1
MaxDuration == 14

Tools ==
    {"calendar_optimizer", "weather_forecast", "route_planner",
     "dining_recommendations", "bing_search"}

Idle == [status |-> "idle", input |-> <<>>, result |-> NoResult]

PreferenceInputs ==
    { [given |-> FALSE, keys |-> {}],
      [given |-> TRUE,  keys |-> {"dining_budget", "preferred_cuisines"}],
      [given |-> TRUE,  keys |-> {"hiking_interest"}] }

Requests ==
    { [starting_location   |-> "Denver",
       travel_window_start |-> ws,
       travel_window_end   |-> we,
       trip_duration_days  |-> d,
       preferences         |-> p] :
        ws \in { <<2025, 6, 1>>, <<2025, 2, 30>> },
        we \in { <<2025, 6, 30>> },
        d  \in { 0, 4, 15 },
        p  \in PreferenceInputs }
    \cup
    \* a window that ends before it starts
    { [starting_location   |-> "Denver",
       travel_window_start |-> <<2025, 6, 1>>,
       travel_window_end   |-> <<2025, 5, 30>>,
       trip_duration_days  |-> 4,
       preferences         |-> [given |-> FALSE, keys |-> {}]] }

\* final answers of the orchestrator's LLM the model follows
OutputSamples ==
    { <<Word>>,
      <<Bare("recommended_dates"), Word>>,
      <<LB, DQ("recommended_dates"), Colon, LB, DQ("start_date"), Colon, Scalar, RB, RB>>,
      <<DQ("weather_forecast"), Colon, LB, DQ("date"), Colon, Scalar, RB>>,
      <<DQ("route_plan"), Colon, LB, Word, RB, Bare("restaurant_recommendations")>>,
      <<SQ("route_plan"), Colon, LB, LB, RB>> }

\* "Agent stopped due to iteration limit or time limit."
StoppedOutput == <<Word, Word, Word>>

Init ==
    /\ FmtAtRest /\ WxAtRest /\ CalAtRest /\ RtAtRest /\ ParAtRest /\ AdAtRest
    /\ app_mode \in {1, 2, 3}
    /\ pc = "received"
    /\ request \in Requests
    /\ preferences = <<>>
    /\ input_query = <<>>
    /\ iterations = 0
    /\ stage = [t \in Tools |-> Idle]
    /\ agent_response = None
    /\ trip_plan = None
    /\ exception = ""
    /\ http = [status |-> 0, detail |-> "", body |-> None]

is_dummy_mode             == app_mode = 1
is_azure_suggestions_mode == app_mode = 2
is_live_api_mode          == app_mode = 3

\* FastAPI parses the body into a TripRequest before the endpoint runs
TripRequestValid(r) ==
    /\ ValidDateStr(r.travel_window_start)
    /\ ValidDateStr(r.travel_window_end)
    /\ r.trip_duration_days >= MinDuration
    /\ r.trip_duration_days <= MaxDuration

Validate ==
    /\ pc = "received"
    /\ IF TripRequestValid(request)
       THEN /\ pc' = "plan_trip"
            /\ UNCHANGED http
       ELSE /\ pc' = "responded"
            /\ http' = [status |-> 422, detail |-> "RequestValidationError", body |-> None]
    /\ UNCHANGED <<app_mode, request, preferences, input_query, iterations, stage,
                   agent_response, trip_plan, exception, fmtVars, wxVars, calVars, rtVars, parVars, adVars>>

DefaultPreferenceKeys ==
    {"dining_budget", "preferred_cuisines", "accessibility_needs", "hiking_interest"}

\* plan_trip up to the call of self.agent.ainvoke: default the preferences,
\* format the query
PlanTripBuildQuery ==
    /\ pc = "plan_trip"
    /\ LET prefs == IF request.preferences.given
                    THEN request.preferences.keys ELSE DefaultPreferenceKeys
       IN  /\ preferences' = prefs
           /\ IF {"dining_budget", "preferred_cuisines"} \subseteq prefs
              THEN /\ input_query' =
                        [trip_duration_days  |-> request.trip_duration_days,
                         starting_location   |-> request.starting_location,
                         travel_window_start |->
                             strftime(strptime(request.travel_window_start)),
                         travel_window_end   |->
                             strftime(strptime(request.travel_window_end))]
                   /\ pc' = "agent"
                   /\ UNCHANGED exception
              ELSE /\ pc' = "raised"
                   /\ exception' = "KeyError"
                   /\ UNCHANGED input_query
    /\ UNCHANGED <<app_mode, request, iterations, stage, agent_response, trip_plan,
                   http, fmtVars, wxVars, calVars, rtVars, parVars, adVars>>

----
\* What the LLM can take from what it has seen so far.

HasRanges(r) ==
    r.kind = "structured" /\ Len(r.value.recommended_date_ranges) > 0

\* the first date range the calendar stage returned
FirstRange(r) == r.value.recommended_date_ranges[1]

\* the stops of a route: where each segment ends
StopList(route) == [i \in 1..Len(route.segments) |-> route.segments[i].to]

Resolved(tool) == stage[tool].status = "returned"

CalendarInputs ==
    { [travel_window_start |-> input_query.travel_window_start,
       travel_window_end   |-> input_query.travel_window_end,
       trip_duration_days  |-> input_query.trip_duration_days],
      [travel_window_start |-> <<2025, 13, 1>>,
       travel_window_end   |-> input_query.travel_window_end,
       trip_duration_days  |-> input_query.trip_duration_days] }

WeatherInputs ==
    { [location   |-> "Yellowstone National Park",
       start_date |-> input_query.travel_window_start,
       end_date   |-> input_query.travel_window_start] }
    \cup
    (IF Resolved("calendar_optimizer") /\ HasRanges(stage["calendar_optimizer"].result)
     THEN { [location   |-> "Yellowstone National Park",
             start_date |-> FirstRange(stage["calendar_optimizer"].result).start_date,
             end_date   |-> FirstRange(stage["calendar_optimizer"].result).end_date] }
     ELSE {})

RouteInputs ==
    { [origin      |-> input_query.starting_location,
       destination |-> "Yellowstone National Park",
       waypoints   |-> <<>>,
       travel_date |-> input_query.travel_window_start] }
    \cup
    (IF Resolved("calendar_optimizer") /\ HasRanges(stage["calendar_optimizer"].result)
     THEN { [origin      |-> input_query.starting_location,
             destination |-> "Yellowstone National Park",
             waypoints   |-> <<>>,
             travel_date |-> FirstRange(stage["calendar_optimizer"].result).start_date] }
     ELSE {})

DiningInputs ==
    { [locations |-> <<"Old Faithful">>] }
    \cup
    (IF Resolved("route_planner") /\ stage["route_planner"].result.kind = "structured"
     THEN { [locations |-> StopList(stage["route_planner"].result.value)] }
     ELSE {})

BingInputs == { [query |-> "Yellowstone road conditions", count |-> 5] }

ToolInputs(tool) ==
    CASE tool = "calendar_optimizer"     -> CalendarInputs
      [] tool = "weather_forecast"       -> WeatherInputs
      [] tool = "route_planner"          -> RouteInputs
      [] tool = "dining_recommendations" -> DiningInputs
      [] tool = "bing_search"            -> BingInputs

----
\* The agent executor's loop (self.agent.ainvoke).

\* the LLM answers with a tool call; the executor starts the tool
AgentAction ==
    /\ pc = "agent"
    /\ iterations < MaxIterations
    /\ \E tool \in Tools : \E input \in ToolInputs(tool) :
           stage' = [stage EXCEPT ![tool] =
                        [status |-> "inflight", input |-> input, result |-> NoResult]]
    /\ pc' = "tool"
    /\ UNCHANGED <<app_mode, request, preferences, input_query, iterations,
                   agent_response, trip_plan, exception, http, fmtVars, wxVars, calVars, rtVars, parVars, adVars>>

\* the LLM answers with the final text
AgentFinish ==
    /\ pc = "agent"
    /\ iterations < MaxIterations
    /\ \E text \in OutputSamples : agent_response' = Dict([output |-> Str(text)])
    /\ pc' = "format"
    /\ UNCHANGED <<app_mode, request, preferences, input_query, iterations, stage,
                   trip_plan, exception, http, fmtVars, wxVars, calVars, rtVars, parVars, adVars>>

\* the iteration limit is used up: the executor stops with its own text
AgentStopped ==
    /\ pc = "agent"
    /\ iterations >= MaxIterations
    /\ agent_response' = Dict([output |-> Str(StoppedOutput)])
    /\ pc' = "format"
    /\ UNCHANGED <<app_mode, request, preferences, input_query, iterations, stage,
                   trip_plan, exception, http, fmtVars, wxVars, calVars, rtVars, parVars, adVars>>

\* the call to the orchestrator's LLM fails: ainvoke raises, and so does plan_trip
AgentLLMRaises ==
    /\ pc = "agent"
    /\ iterations < MaxIterations
    /\ pc' = "raised"
    /\ exception' = "APIError"
    /\ UNCHANGED <<app_mode, request, preferences, input_query, iterations, stage,
                   agent_response, trip_plan, http, fmtVars, wxVars, calVars, rtVars, parVars, adVars>>

\* a tool returns: its result goes to the LLM, the loop goes on
ToolReturns(tool, result) ==
    /\ stage' = [stage EXCEPT ![tool].status = "returned", ![tool].result = result]
    /\ iterations' = iterations + 1
    /\ pc' = "agent"
    /\ UNCHANGED <<app_mode, request, preferences, input_query, agent_response,
                   trip_plan, exception, http, fmtVars, wxVars, calVars, rtVars, parVars, adVars>>

\* a tool raises: the executor does not catch it, ainvoke and plan_trip raise
ToolRaises(tool, exc) ==
    /\ stage' = [stage EXCEPT ![tool].status = "raised"]
    /\ pc' = "raised"
    /\ exception' = exc
    /\ UNCHANGED <<app_mode, request, preferences, input_query, iterations,
                   agent_response, trip_plan, http, fmtVars, wxVars, calVars, rtVars, parVars, adVars>>

InFlight(tool) == pc = "tool" /\ stage[tool].status = "inflight"

----
\* The orchestrator's tools: each runs its sub-agent in the configured mode.

\* the values of random.randint(7, 14)
DummyStartDraws == 7..14

\* CalendarTool._run -> CalendarAgent.get_optimal_dates
CalendarTool_run ==
    /\ InFlight("calendar_optimizer")
    /\ LET in == stage["calendar_optimizer"].input
       IN  CASE is_dummy_mode ->
                  IF ValidDateStr(in.travel_window_start)
                  THEN \E draw \in DummyStartDraws :
                         ToolReturns("calendar_optimizer",
                             Structured(CalendarAgent_get_dummy_dates(
                                 in.travel_window_start, in.travel_window_end,
                                 in.trip_duration_days, draw)))
                  ELSE ToolRaises("calendar_optimizer", "ValueError")
             [] is_azure_suggestions_mode ->
                  \/ ToolRaises("calendar_optimizer", "APIError")
                  \/ \E reply \in SubAgentReplies :
                       IF ValidDateStr(in.travel_window_start)
                            /\ ValidDateStr(in.travel_window_end)
                       THEN ToolReturns("calendar_optimizer",
                                Structured(CalendarAgent_parse_azure_response(
                                    reply, in.travel_window_start, in.travel_window_end,
                                    in.trip_duration_days)))
                       ELSE ToolRaises("calendar_optimizer", "ValueError")
             [] OTHER ->
                  \/ ToolRaises("calendar_optimizer", "APIError")
                  \/ \E reply \in SubAgentReplies :
                       ToolReturns("calendar_optimizer", PlainText(reply))

\* WeatherTool._run -> WeatherAgent.get_forecast
WeatherTool_run ==
    /\ InFlight("weather_forecast")
    /\ LET in == stage["weather_forecast"].input
       IN  CASE is_dummy_mode ->
                  IF ValidDateStr(in.start_date) /\ ValidDateStr(in.end_date)
                  THEN ToolReturns("weather_forecast",
                           Structured(WeatherAgent_get_dummy_forecast(
                               in.start_date, in.end_date)))
                  ELSE ToolRaises("weather_forecast", "ValueError")
             [] is_azure_suggestions_mode ->
                  \/ ToolRaises("weather_forecast", "APIError")
                  \/ \E reply \in SubAgentReplies :
                       IF ValidDateStr(in.start_date) /\ ValidDateStr(in.end_date)
                       THEN ToolReturns("weather_forecast",
                                Structured(WeatherAgent_parse_azure_response(
                                    reply, in.start_date, in.end_date)))
                       ELSE ToolRaises("weather_forecast", "ValueError")
             [] OTHER ->
                  ToolRaises("weather_forecast", "NotImplementedError")

\* RouteTool._run -> RouteAgent.plan_route
RouteTool_run ==
    /\ InFlight("route_planner")
    /\ LET in == stage["route_planner"].input
       IN  CASE is_dummy_mode ->
                  ToolReturns("route_planner",
                      Structured(RouteAgent_get_dummy_route(in.origin)))
             [] is_azure_suggestions_mode ->
                  \/ ToolRaises("route_planner", "APIError")
                  \/ \E reply \in SubAgentReplies :
                       ToolReturns("route_planner",
                           Structured(RouteAgent_parse_azure_response(
                               reply, in.origin, in.destination)))
             [] OTHER ->
                  \/ ToolRaises("route_planner", "APIError")
                  \/ \E reply \in SubAgentReplies :
                       ToolReturns("route_planner", PlainText(reply))

\* DiningTool._run -> DiningAgent.get_recommendations
DiningTool_run ==
    /\ InFlight("dining_recommendations")
    /\ LET in == stage["dining_recommendations"].input
       IN  CASE is_dummy_mode ->
                  ToolReturns("dining_recommendations",
                      Structured(DiningAgent_get_dummy_recommendations(in.locations)))
             [] is_azure_suggestions_mode ->
                  \/ ToolRaises("dining_recommendations", "APIError")
                  \/ \E reply \in SubAgentReplies :
                       ToolReturns("dining_recommendations",
                           Structured(DiningAgent_parse_azure_response(
                               reply, in.locations)))
             [] OTHER ->
                  ToolRaises("dining_recommendations", "NotImplementedError")

\* BingSearchTool._run: mock results, or the one-result fallback of its except
BingSearchTool_run ==
    /\ InFlight("bing_search")
    /\ \E outcome \in {"results", "fallback"} :
         ToolReturns("bing_search",
             Structured([query |-> stage["bing_search"].input.query, results |-> outcome]))

----
\* plan_trip after ainvoke, and the endpoint.

\* return self._format_response(response, starting_location, trip_duration_days)
FormatResponse ==
    /\ pc = "format"
    /\ LET r == format_response(agent_response, request.starting_location,
                                request.trip_duration_days)
       IN  IF r.raised
           THEN /\ pc' = "raised"
                /\ exception' = r.exc
                /\ UNCHANGED trip_plan
           ELSE /\ pc' = "returned"
                /\ trip_plan' = r.plan
                /\ UNCHANGED exception
    /\ UNCHANGED <<app_mode, request, preferences, input_query, iterations, stage,
                   agent_response, http, fmtVars, wxVars, calVars, rtVars, parVars, adVars>>

IsListOfDicts(v) ==
    v.t = "list" /\ \A i \in 1..Len(v.elems) : v.elems[i].t = "dict"

\* the dict fits the response model TripResponse
TripResponseValid(plan) ==
    /\ plan.starting_location.t = "str"
    /\ plan.duration_days.t = "int"
    /\ plan.recommended_dates.t = "dict"
    /\ IsListOfDicts(plan.weather_forecast)
    /\ plan.route_plan.t = "dict"
    /\ IsListOfDicts(plan.restaurant_recommendations)
    /\ plan.raw_plan.t = "str"

\* TripResponse(**plan): the fields the dict lacks take their defaults
TripResponse(plan) ==
    plan @@ [hotel_recommendations |-> None, estimated_costs |-> None]

\* `return trip_plan` with response_model=TripResponse
EndpointReturn ==
    /\ pc = "returned"
    /\ http' = IF TripResponseValid(trip_plan)
               THEN [status |-> 200, detail |-> "", body |-> TripResponse(trip_plan)]
               ELSE [status |-> 500, detail |-> "ResponseValidationError", body |-> None]
    /\ pc' = "responded"
    /\ UNCHANGED <<app_mode, request, preferences, input_query, iterations, stage,
                   agent_response, trip_plan, exception, fmtVars, wxVars, calVars, rtVars, parVars, adVars>>

\* except Exception as e: raise HTTPException(status_code=500, detail=str(e))
EndpointExcept ==
    /\ pc = "raised"
    /\ http' = [status |-> 500, detail |-> exception, body |-> None]
    /\ pc' = "responded"
    /\ UNCHANGED <<app_mode, request, preferences, input_query, iterations, stage,
                   agent_response, trip_plan, exception, fmtVars, wxVars, calVars, rtVars, parVars, adVars>>

Next ==
    \/ Validate
    \/ PlanTripBuildQuery
    \/ AgentAction
    \/ AgentFinish
    \/ AgentStopped
    \/ AgentLLMRaises
    \/ CalendarTool_run
    \/ WeatherTool_run
    \/ RouteTool_run
    \/ DiningTool_run
    \/ BingSearchTool_run
    \/ FormatResponse
    \/ EndpointReturn
    \/ EndpointExcept

Spec == Init /\ [][Next]_vars

----
\* Claims about the request pipeline.

(* C1: the Dining adapter is never invoked before the Route stage of the
   same request has resolved. *)
C1_DiningAfterRoute ==
    InFlight("dining_recommendations") => Resolved("route_planner")

Issued(tool) == stage[tool].status # "idle"

(* C2: the Weather request and the Route request are both issued before
   either is awaited: whenever one of them is being awaited or has come
   back, the other has been issued too. *)
C2_WeatherAndRouteIssuedTogether ==
    /\ Issued("weather_forecast") => Issued("route_planner")
    /\ Issued("route_planner") => Issued("weather_forecast")

(* C3: no Weather, Route or Dining call starts before the Calendar stage has
   resolved, and the dates passed to Weather and Route are those of the
   first date range Calendar returned. *)
C3_CalendarFirst ==
    /\ \A tool \in {"weather_forecast", "route_planner", "dining_recommendations"} :
           InFlight(tool) =>
               Resolved("calendar_optimizer") /\ HasRanges(stage["calendar_optimizer"].result)
    /\ InFlight("weather_forecast") =>
           /\ stage["weather_forecast"].input.start_date =
                  FirstRange(stage["calendar_optimizer"].result).start_date
           /\ stage["weather_forecast"].input.end_date =
                  FirstRange(stage["calendar_optimizer"].result).end_date
    /\ InFlight("route_planner") =>
           stage["route_planner"].input.travel_date =
               FirstRange(stage["calendar_optimizer"].result).start_date

(* C4: plan_trip is best-effort: a sub-agent call that fails does not make
   plan_trip raise. *)
C4_PlanTripBestEffort ==
    \A tool \in Tools : stage[tool].status = "raised" => pc # "raised"

ListedFields ==
    {"starting_location", "duration_days", "recommended_dates", "weather_forecast",
     "route_plan", "restaurant_recommendations", "hotel_recommendations",
     "estimated_costs", "raw_plan"}

BuiltFields == ListedFields \ {"hotel_recommendations", "estimated_costs"}

(* C5, as claimed: every listed field of the returned TripPlan holds a value,
   never null. *)
C5_EveryFieldNonNull ==
    http.status = 200 => \A f \in ListedFields : http.body[f] # None

(* C5, amended: in every plan plan_trip returns, starting_location,
   duration_days, recommended_dates, weather_forecast, route_plan,
   restaurant_recommendations and raw_plan hold a value, never null; in the
   response, hotel_recommendations and estimated_costs are null. *)
C5_BuiltFieldsNonNull ==
    /\ trip_plan # None => \A f \in BuiltFields : trip_plan[f] # None
    /\ http.status = 200 =>
           /\ \A f \in BuiltFields : http.body[f] # None
           /\ http.body["hotel_recommendations"] = None
           /\ http.body["estimated_costs"] = None

\* a plan was returned with the forecast defaulted to the empty list
C5_Witness ==
    /\ pc = "responded" /\ http.status = 200
    /\ http.body["weather_forecast"] = EmptyList
    /\ http.body["route_plan"] = EmptyDict
    /\ Resolved("route_planner")

(* C6: a failure of a sub-agent or of its backend during planning (the call
   to it fails, or the strategy is not available) never results in a failure
   response. *)
C6_SubAgentFailureNotSurfaced ==
    \A tool \in Tools :
        (stage[tool].status = "raised" /\ exception \in {"APIError", "NotImplementedError"})
            => http.status # 500

(* C7: the locations passed to the Dining adapter are exactly the stop list
   of the resolved Route stage. *)
C7_DiningLocationsAreRouteStops ==
    (/\ InFlight("dining_recommendations")
     /\ Resolved("route_planner")
     /\ stage["route_planner"].result.kind = "structured") =>
        stage["dining_recommendations"].input.locations =
            StopList(stage["route_planner"].result.value)

\* a plan was returned and no structured recommended_dates came out of the output
DatesDegraded ==
    /\ trip_plan # None
    /\ ~Truthy(Extracted(agent_response.items["output"].s, "recommended_dates"))

(* C8: when the Calendar stage fails, or no structured date recommendation
   is available, a plan is returned whose recommended_dates holds a default
   date range and the reasoning
   "Unable to extract structured date recommendations.". *)
C8_DefaultDateRange ==
    /\ (stage["calendar_optimizer"].status = "raised" /\ pc \in {"raised", "responded"})
           => trip_plan # None
    /\ DatesDegraded =>
           /\ HasKey(trip_plan.recommended_dates, "start_date")
           /\ HasKey(trip_plan.recommended_dates, "end_date")
           /\ HasKey(trip_plan.recommended_dates, "reasoning")

\* the data-model constraints of a trip request
RequestConstraints(r) ==
    /\ ValidDateStr(r.travel_window_start) /\ ValidDateStr(r.travel_window_end)
    /\ MinDuration <= r.trip_duration_days /\ r.trip_duration_days <= MaxDuration
    /\ strptime(r.travel_window_start) <= strptime(r.travel_window_end)
    /\ r.trip_duration_days
           <= strptime(r.travel_window_end) - strptime(r.travel_window_start)

(* C18: every request accepted for planning satisfies the data-model
   constraints (1 <= trip_duration_days <= 14, travel_window_start <=
   travel_window_end, trip_duration_days <= window length in days); a
   request violating one of them is rejected before any sub-agent is
   invoked. *)
C18_AcceptedRequestsAreValid ==
    /\ pc \in {"plan_trip", "agent", "tool", "format", "returned", "raised"}
           => RequestConstraints(request)
    /\ ~RequestConstraints(request)
           => \A tool \in Tools : stage[tool].status = "idle"

(* C19: in every mode each adapter call returns a structured result: never
   bare text in place of the structure, and it never raises because the
   structure could not be produced. *)
C19_AdaptersReturnStructured ==
    \A tool \in Tools \ {"bing_search"} :
        /\ stage[tool].status = "returned" => stage[tool].result.kind = "structured"
        /\ stage[tool].status = "raised" => exception # "NotImplementedError"

\* the request is over: plan_trip has raised, or the endpoint has answered
RequestOver == pc \in {"raised", "responded"}

(* C21: every request whose sub-agent calls each return or fail ends in
   Complete: when the request is over, plan_trip has returned a plan; and
   Complete is terminal:
   once the plan is there no stage runs any more. *)
C21_EveryRequestCompletes ==
    /\ \A tool \in Tools :
           (RequestOver /\ stage[tool].status \in {"returned", "raised"})
               => trip_plan # None
    /\ trip_plan # None => \A tool \in Tools : ~InFlight(tool)

(* C25: a Weather failure does not block Route, and a Route failure does
   not block Weather: after one of them has failed while the other has not
   been run yet, the request is not over, so the other can still run. *)
C25_WeatherAndRouteIndependent ==
    /\ (stage["weather_forecast"].status = "raised"
            /\ stage["route_planner"].status = "idle") => ~RequestOver
    /\ (stage["route_planner"].status = "raised"
            /\ stage["weather_forecast"].status = "idle") => ~RequestOver

\* _format_response has been entered
AggregationStarted == pc \in {"format", "returned"} \/ trip_plan # None

(* C26: aggregation is a join point: _format_response starts only after
   both the Weather call and the Route call have completed, and the plan
   holds nothing before aggregation starts. *)
C26_AggregationIsJoinPoint ==
    /\ AggregationStarted
           => Resolved("weather_forecast") /\ Resolved("route_planner")
    /\ ~AggregationStarted => trip_plan = None

(* C29: plan_trip accepts any preferences: for None and for any supplied
   map, with or without dining_budget and preferred_cuisines, the query is
   built and planning proceeds to the agent. *)
C29_AnyPreferencesAccepted ==
    (TripRequestValid(request) /\ pc \notin {"received", "plan_trip"})
        => input_query # <<>>

(***************************************************************************)
(* SpecFormat: _format_response applied to an agent response.              *)
(***************************************************************************)
MaxTextLen == 4

TextAlphabet ==
    { LB, RB, Colon, Scalar, DQ("recommended_dates"), DQ("weather_forecast"),
      SQ("route_plan"), Bare("restaurant_recommendations") }

RECURSIVE TextsOfLen(_)
TextsOfLen(n) ==
    IF n = 0 THEN { <<>> }
    ELSE { Append(t, c) : t \in TextsOfLen(n - 1), c \in TextAlphabet }

Texts == UNION { TextsOfLen(n) : n \in 0..MaxTextLen }

\* what _format_response may be handed: a mapping whose "output" is a text,
\* a mapping whose "output" is None, a mapping without "output"
AgentResponses ==
    { Dict([output |-> Str(t)]) : t \in Texts \cup OutputSamples \cup {StoppedOutput} }
    \cup { Dict([output |-> None]), EmptyDict }

FInit ==
    /\ ReqAtRest /\ WxAtRest /\ CalAtRest /\ RtAtRest /\ ParAtRest /\ AdAtRest
    /\ f_pc = "call"
    /\ f_response \in AgentResponses
    /\ f_plan = None

\* _format_response(agent_response, starting_location, trip_duration_days)
FFormat ==
    /\ f_pc = "call"
    /\ LET r == format_response(f_response, "Denver", 4)
       IN  /\ f_pc' = IF r.raised THEN "raised" ELSE "returned"
           /\ f_plan' = r.plan
    /\ UNCHANGED <<f_response, reqVars, wxVars, calVars, rtVars, parVars, adVars>>

FNext == FFormat

SpecFormat == FInit /\ [][FNext]_vars

(* C9: the aggregation step never raises, whatever the agent response and
   its output text. *)
C9_AggregationNeverRaises == f_pc # "raised"

\* the text _format_response was handed, when the response has one
HasOutputText == HasKey(f_response, "output") /\ f_response.items["output"].t = "str"
OutputText    == f_response.items["output"].s

\* the value the plan gives a section nothing was extracted for
PlanDefault(section_name) ==
    CASE section_name = "recommended_dates" -> Dict([reasoning |-> Str(UnableToExtract)])
      [] section_name = "route_plan"        -> EmptyDict
      [] OTHER                              -> EmptyList

\* the index of the first quoted mention of the section name
FirstMention(text, name) ==
    CHOOSE i \in 1..Len(text) :
        /\ text[i].n = name /\ text[i].k \in {"dq", "sq"}
        /\ \A j \in 1..(i - 1) : ~(text[j].n = name /\ text[j].k \in {"dq", "sq"})

\* the index of the first brace after position from, 0 when there is none
FindBraceAfter(text, from) ==
    IF \E i \in (from + 1)..Len(text) : text[i].k = "{"
    THEN CHOOSE i \in (from + 1)..Len(text) :
             text[i].k = "{" /\ \A j \in (from + 1)..(i - 1) : text[j].k # "{"
    ELSE 0

\* the balanced block that follows the first mention of the section, parsed
BlockFollowing(text, name) ==
    IF ~MentionsQuoted(text, name) THEN ParseFail
    ELSE LET start_idx == FindBraceAfter(text, FirstMention(text, name))
             i         == IF start_idx = 0 THEN 0 ELSE MatchBrace(text, start_idx + 1, 1)
         IN  IF start_idx # 0 /\ i # 0
             THEN json_loads(SubSeq(text, start_idx, i))
             ELSE ParseFail

(* C22: a section the plan took from the text holds the parsed balanced
   block that follows the first mention of the section's name: never a block
   that starts before the mention, never the block of another section. *)
C22_BlockFollowsMention ==
    (f_pc = "returned" /\ HasOutputText) =>
        \A s \in SectionNames :
            f_plan[s] # PlanDefault(s) =>
                /\ BlockFollowing(OutputText, s).ok
                /\ f_plan[s] = BlockFollowing(OutputText, s).v

\* the text has no balanced block, or its first balanced block is not JSON
NoUsableBlock(text) ==
    LET start_idx == FindBrace(text)
        i         == IF start_idx = 0 THEN 0 ELSE MatchBrace(text, start_idx + 1, 1)
    IN  start_idx = 0 \/ i = 0 \/ ~json_loads(SubSeq(text, start_idx, i)).ok

(* C23: when the text has no balanced block, or the balanced block the
   function finds does not parse, _extract_json_section returns the empty structure of the section (an
   empty map for recommended_dates and route_plan, an empty list for
   weather_forecast and restaurant_recommendations), and the plan holds the
   section's explicit default. *)
C23_EmptyStructureOnFailure ==
    (f_pc = "returned" /\ HasOutputText /\ NoUsableBlock(OutputText)) =>
        \A s \in SectionNames :
            /\ extract_json_section(OutputText, s) =
                   (IF s \in {"recommended_dates", "route_plan"}
                    THEN EmptyDict ELSE EmptyList)
            /\ f_plan[s] = PlanDefault(s)

\* a section is mentioned in quotes, a brace opens and never closes
C23_Witness ==
    /\ f_pc = "returned" /\ HasOutputText
    /\ OutputText = <<DQ("weather_forecast"), Colon, LB, Scalar>>
    /\ f_plan["weather_forecast"] = EmptyList

(* C28: every section of a plan _format_response returns has the type the
   response model requires: recommended_dates and route_plan are maps,
   weather_forecast and restaurant_recommendations are lists of records. *)
C28_SectionsHaveModelTypes ==
    f_pc = "returned" =>
        /\ f_plan["recommended_dates"].t = "dict"
        /\ f_plan["route_plan"].t = "dict"
        /\ IsListOfDicts(f_plan["weather_forecast"])
        /\ IsListOfDicts(f_plan["restaurant_recommendations"])

(***************************************************************************)
(* SpecWeather: one run of a forecast generator.                           *)
(***************************************************************************)
MaxForecastDays == 3

ForecastKinds == {"dummy", "azure", "simulate", "mock"}

ForecastDateStrs ==
    { <<2025, 6, 30>>, <<2025, 7, 1>>, <<2024, 2, 28>>, <<2024, 3, 1>>,
      <<2025, 12, 30>>, <<2026, 1, 2>>, <<2025, 2, 30>> }

ForecastRanges ==
    { r \in ForecastDateStrs \X ForecastDateStrs :
        (ValidDateStr(r[1]) /\ ValidDateStr(r[2]))
            => (strptime(r[2]) - strptime(r[1])) + 1 <= MaxForecastDays }

WInit ==
    /\ ReqAtRest /\ FmtAtRest /\ CalAtRest /\ RtAtRest /\ ParAtRest /\ AdAtRest
    /\ w_pc = "call"
    /\ w_kind \in ForecastKinds
    /\ w_response \in (IF w_kind = "azure" THEN SubAgentReplies ELSE {<<>>})
    /\ \E r \in ForecastRanges : w_start_date = r[1] /\ w_end_date = r[2]
    /\ w_current_date = 0
    /\ w_weather_options = <<>>
    /\ w_forecasts = <<>>

WDatesParse == ValidDateStr(w_start_date) /\ ValidDateStr(w_end_date)

\* WeatherAgent.get_forecast in LOCAL_DUMMY mode
WDummy ==
    /\ w_pc = "call" /\ w_kind = "dummy"
    /\ IF WDatesParse
       THEN /\ w_forecasts' = WeatherAgent_get_dummy_forecast(w_start_date, w_end_date).forecasts
            /\ w_pc' = "returned"
       ELSE /\ w_pc' = "raised"
            /\ UNCHANGED w_forecasts
    /\ UNCHANGED <<reqVars, fmtVars, calVars, rtVars, parVars, adVars>>
    /\ UNCHANGED <<w_kind, w_response, w_start_date, w_end_date, w_current_date,
                   w_weather_options>>

\* WeatherAgent.get_forecast in AZURE_SUGGESTIONS mode, once the LLM has replied
WAzure ==
    /\ w_pc = "call" /\ w_kind = "azure"
    /\ IF WDatesParse
       THEN /\ w_forecasts' = WeatherAgent_parse_azure_response(
                                   w_response, w_start_date, w_end_date).forecasts
            /\ w_pc' = "returned"
       ELSE /\ w_pc' = "raised"
            /\ UNCHANGED w_forecasts
    /\ UNCHANGED <<reqVars, fmtVars, calVars, rtVars, parVars, adVars>>
    /\ UNCHANGED <<w_kind, w_response, w_start_date, w_end_date, w_current_date,
                   w_weather_options>>

\* WeatherTool._simulate_weather_data and GET /weather/{location}, up to the loop
WSimulateBegin ==
    /\ w_pc = "call" /\ w_kind \in {"simulate", "mock"}
    /\ IF WDatesParse
       THEN /\ w_current_date' = strptime(w_start_date)
            /\ w_weather_options' =
                   (IF w_kind = "simulate" THEN ToolWeatherOptions ELSE MockWeatherOptions)
            /\ w_pc' = "loop"
       ELSE /\ w_pc' = "raised"
            /\ UNCHANGED <<w_current_date, w_weather_options>>
    /\ UNCHANGED <<reqVars, fmtVars, calVars, rtVars, parVars, adVars>>
    /\ UNCHANGED <<w_kind, w_response, w_start_date, w_end_date, w_forecasts>>

\* one iteration of `while current_date <= end`
WSimulateStep ==
    /\ w_pc = "loop"
    /\ WhileTest(w_current_date, strptime(w_end_date))
    /\ \E k \in 1..Len(w_weather_options), dh \in HighTempDraws, dl \in LowTempDraws :
         LET varied == VaryOption(w_weather_options, k, dh, dl)
         IN  /\ w_weather_options' = varied
             /\ w_forecasts' = Append(w_forecasts, SimulatedEntry(w_current_date, varied[k]))
    /\ w_current_date' = w_current_date + 1
    /\ UNCHANGED <<reqVars, fmtVars, calVars, rtVars, parVars, adVars>>
    /\ UNCHANGED <<w_pc, w_kind, w_response, w_start_date, w_end_date>>

\* the loop test fails: return forecasts
WSimulateReturn ==
    /\ w_pc = "loop"
    /\ ~WhileTest(w_current_date, strptime(w_end_date))
    /\ w_pc' = "returned"
    /\ UNCHANGED <<reqVars, fmtVars, calVars, rtVars, parVars, adVars>>
    /\ UNCHANGED <<w_kind, w_response, w_start_date, w_end_date, w_current_date,
                   w_weather_options, w_forecasts>>

WNext == WDummy \/ WAzure \/ WSimulateBegin \/ WSimulateStep \/ WSimulateReturn

SpecWeather == WInit /\ [][WNext]_vars

(* C10: every forecast returned for a range with start_date <= end_date has
   exactly (end_date - start_date).days + 1 entries, the first dated
   start_date, the last dated end_date, each next entry dated one day after
   the one before it. *)
C10_OneEntryPerDay ==
    (w_pc = "returned" /\ strptime(w_start_date) <= strptime(w_end_date)) =>
        /\ Len(w_forecasts) = (strptime(w_end_date) - strptime(w_start_date)) + 1
        /\ w_forecasts[1].date = w_start_date
        /\ w_forecasts[Len(w_forecasts)].date = w_end_date
        /\ \A i \in 1..(Len(w_forecasts) - 1) :
               /\ ValidDateStr(w_forecasts[i + 1].date)
               /\ strptime(w_forecasts[i + 1].date) = strptime(w_forecasts[i].date) + 1

\* a three-day forecast across the leap day has been returned
C10_Witness ==
    /\ w_pc = "returned" /\ w_kind = "mock"
    /\ w_start_date = <<2024, 2, 28>> /\ w_end_date = <<2024, 3, 1>>
    /\ Len(w_forecasts) = 3
    /\ w_forecasts[2].date = <<2024, 2, 29>>

\* the option list a simulated generator starts from
BaseWeatherOptions ==
    IF w_kind = "simulate" THEN ToolWeatherOptions ELSE MockWeatherOptions

\* the entry is one option of the list, its temperatures varied once
VariedOnce(entry, option) ==
    /\ entry.condition = option.condition
    /\ entry.high_temp_f - option.high_temp \in -5..5
    /\ entry.low_temp_f - option.low_temp \in -3..3

(* C30: in every daily entry of a simulated generator low_temp_f <=
   high_temp_f and precipitation_chance is within 0..100, and the variation
   applied for one day does not accumulate into later entries: each entry
   is an option of the list with its temperatures varied once. *)
C30_SimulatedEntriesBounded ==
    w_kind \in {"simulate", "mock"} =>
        \A i \in 1..Len(w_forecasts) :
            /\ w_forecasts[i].low_temp_f <= w_forecasts[i].high_temp_f
            /\ w_forecasts[i].precipitation_chance \in 0..100
            /\ \E k \in 1..Len(BaseWeatherOptions) :
                   VariedOnce(w_forecasts[i], BaseWeatherOptions[k])

(***************************************************************************)
(* SpecCalendar: one run of a calendar strategy: the agent's dummy dates,  *)
(* the agent's parse of its LLM's reply, or CalendarOptimizerTool._run     *)
(* with one loop iteration per step.                                       *)
(***************************************************************************)
MaxWindowDays == 4

CalendarKinds == {"dummy", "azure", "tool"}

CalendarStarts == { <<2025, 6, 28>>, <<2025, 9, 5>> }

\* windows of 1 .. MaxWindowDays + 1 days, a month-long one, a malformed one
ShortWindows ==
    { <<s, strftime(strptime(s) + k)>> : s \in CalendarStarts, k \in 0..MaxWindowDays }

CalendarWindows(kind) ==
    ShortWindows \cup { << <<2025, 2, 30>>, <<2025, 3, 5>> >> }
        \cup (IF kind = "tool" THEN {} ELSE { << <<2025, 6, 1>>, <<2025, 6, 30>> >> })

CalendarDurations == {1, 2, 4}

PreferredDays(kind) == IF kind = "tool" THEN {"", "Sunday", "tuesday"} ELSE {""}

CInit ==
    /\ ReqAtRest /\ FmtAtRest /\ WxAtRest /\ RtAtRest /\ ParAtRest /\ AdAtRest
    /\ c_pc = "call"
    /\ c_kind \in CalendarKinds
    /\ \E w \in CalendarWindows(c_kind) :
           c_travel_window_start = w[1] /\ c_travel_window_end = w[2]
    /\ c_trip_duration_days \in CalendarDurations
    /\ c_preferred_day_of_week_start \in PreferredDays(c_kind)
    /\ c_current_date = 0
    /\ c_possible_dates = <<>>
    /\ c_result = NoResult

\* CalendarAgent._get_dummy_dates
CDummy ==
    /\ c_pc = "call" /\ c_kind = "dummy"
    /\ IF ValidDateStr(c_travel_window_start)
       THEN /\ \E draw \in DummyStartDraws :
                   c_result' = Structured(CalendarAgent_get_dummy_dates(
                                   c_travel_window_start, c_travel_window_end,
                                   c_trip_duration_days, draw))
            /\ c_pc' = "returned"
       ELSE /\ c_pc' = "raised"
            /\ UNCHANGED c_result
    /\ UNCHANGED <<c_kind, c_travel_window_start, c_travel_window_end,
                   c_trip_duration_days, c_preferred_day_of_week_start,
                   c_current_date, c_possible_dates>>
    /\ UNCHANGED <<reqVars, fmtVars, wxVars, rtVars, parVars, adVars>>

\* CalendarAgent._parse_azure_response on the reply of the agent's LLM
CAzure ==
    /\ c_pc = "call" /\ c_kind = "azure"
    /\ IF ValidDateStr(c_travel_window_start) /\ ValidDateStr(c_travel_window_end)
       THEN /\ \E response \in SubAgentReplies :
                   c_result' = Structured(CalendarAgent_parse_azure_response(
                                   response, c_travel_window_start, c_travel_window_end,
                                   c_trip_duration_days))
            /\ c_pc' = "returned"
       ELSE /\ c_pc' = "raised"
            /\ UNCHANGED c_result
    /\ UNCHANGED <<c_kind, c_travel_window_start, c_travel_window_end,
                   c_trip_duration_days, c_preferred_day_of_week_start,
                   c_current_date, c_possible_dates>>
    /\ UNCHANGED <<reqVars, fmtVars, wxVars, rtVars, parVars, adVars>>

\* CalendarOptimizerTool._run up to the loop; a date that does not parse is
\* caught and reported as text
CToolBegin ==
    /\ c_pc = "call" /\ c_kind = "tool"
    /\ IF ValidDateStr(c_travel_window_start) /\ ValidDateStr(c_travel_window_end)
       THEN /\ c_current_date' = strptime(c_travel_window_start)
            /\ c_pc' = "loop"
            /\ UNCHANGED c_result
       ELSE /\ c_result' = PlainText("Error optimizing travel dates")
            /\ c_pc' = "returned"
            /\ UNCHANGED c_current_date
    /\ UNCHANGED <<c_kind, c_travel_window_start, c_travel_window_end,
                   c_trip_duration_days, c_preferred_day_of_week_start,
                   c_possible_dates>>
    /\ UNCHANGED <<reqVars, fmtVars, wxVars, rtVars, parVars, adVars>>

\* while current_date <= end_date - timedelta(days=trip_duration_days-1)
CalendarWhileTest(current_date, end_date, trip_duration_days) ==
    current_date <= end_date - (trip_duration_days - 1)

\* one iteration of the loop
CToolStep ==
    /\ c_pc = "loop"
    /\ CalendarWhileTest(c_current_date, strptime(c_travel_window_end), c_trip_duration_days)
    /\ IF /\ c_preferred_day_of_week_start # ""
          /\ day_name(c_current_date) # lower(c_preferred_day_of_week_start)
       THEN UNCHANGED c_possible_dates
       ELSE \E draws \in ScoreDraws :
                c_possible_dates' =
                    Append(c_possible_dates,
                           PossibleDate(c_current_date, c_trip_duration_days, draws))
    /\ c_current_date' = c_current_date + 1
    /\ UNCHANGED <<c_pc, c_kind, c_travel_window_start, c_travel_window_end,
                   c_trip_duration_days, c_preferred_day_of_week_start, c_result>>
    /\ UNCHANGED <<reqVars, fmtVars, wxVars, rtVars, parVars, adVars>>

\* after the loop: sort in place, keep the top three, return
CToolReturn ==
    /\ c_pc = "loop"
    /\ ~CalendarWhileTest(c_current_date, strptime(c_travel_window_end), c_trip_duration_days)
    /\ c_possible_dates' = SortByTotalScore(c_possible_dates)
    /\ c_result' = Structured(CalendarOptimizerTool_result(c_possible_dates))
    /\ c_pc' = "returned"
    /\ UNCHANGED <<c_kind, c_travel_window_start, c_travel_window_end,
                   c_trip_duration_days, c_preferred_day_of_week_start, c_current_date>>
    /\ UNCHANGED <<reqVars, fmtVars, wxVars, rtVars, parVars, adVars>>

CNext == CDummy \/ CAzure \/ CToolBegin \/ CToolStep \/ CToolReturn

SpecCalendar == CInit /\ [][CNext]_vars

\* the ranges a finished run recommends
ReturnedRanges ==
    IF c_pc = "returned" /\ c_result.kind = "structured"
    THEN c_result.value.recommended_date_ranges ELSE <<>>

(* C11: every recommended range has total_score equal to
   0.4*weather_score + 0.4*crowd_score + 0.2*wildlife_score, up to rounding
   to two decimals: the two differ by at most 0.01. *)
C11_TotalScoreIsWeightedSum ==
    \A i \in 1..Len(ReturnedRanges) :
        LET x        == ReturnedRanges[i]
            weighted == 40 * x.weather_score + 40 * x.crowd_score + 20 * x.wildlife_score
        IN  /\ 100 * x.total_score - weighted <= 100
            /\ weighted - 100 * x.total_score <= 100

(* C12: the list the calendar optimizer returns has at most 3 entries, is
   sorted by total_score in non-increasing order, and no candidate left out
   of it has a total_score strictly greater than one in it. *)
C12_TopThreeSorted ==
    /\ Len(ReturnedRanges) <= 3
    /\ \A i \in 1..(Len(ReturnedRanges) - 1) :
           ReturnedRanges[i].total_score >= ReturnedRanges[i + 1].total_score
    /\ c_pc = "returned" =>
           \A j \in 1..Len(c_possible_dates) :
               \/ \E i \in 1..Len(ReturnedRanges) : ReturnedRanges[i] = c_possible_dates[j]
               \/ \A i \in 1..Len(ReturnedRanges) :
                      c_possible_dates[j].total_score <= ReturnedRanges[i].total_score

\* the optimizer kept three of more than three candidates, of different
\* scores, the best of them starting later than the second best
C12_Witness ==
    /\ c_pc = "returned" /\ c_kind = "tool"
    /\ Len(c_possible_dates) > 3
    /\ Len(ReturnedRanges) = 3
    /\ ReturnedRanges[1].total_score > ReturnedRanges[3].total_score
    /\ strptime(ReturnedRanges[1].start_date) > strptime(ReturnedRanges[2].start_date)
    /\ c_possible_dates[4].total_score < ReturnedRanges[3].total_score

(* C24: among candidates of equal total_score the earliest start_date ranks
   first: adjacent recommendations of equal total_score are in ascending
   start_date order, and a candidate left out of the top three that ties
   with a retained one starts later than it. *)
C24_TiesEarliestFirst ==
    (c_pc = "returned" /\ c_kind = "tool") =>
        /\ \A i \in 1..(Len(ReturnedRanges) - 1) :
               ReturnedRanges[i].total_score = ReturnedRanges[i + 1].total_score
                   => strptime(ReturnedRanges[i].start_date)
                          < strptime(ReturnedRanges[i + 1].start_date)
        /\ \A i \in 1..Len(ReturnedRanges) :
               \A j \in (Len(ReturnedRanges) + 1)..Len(c_possible_dates) :
                   c_possible_dates[j].total_score = ReturnedRanges[i].total_score
                       => strptime(ReturnedRanges[i].start_date)
                              < strptime(c_possible_dates[j].start_date)

\* four candidates, the third and the fourth of equal score: the tie
\* straddles the cut
C24_Witness ==
    /\ c_pc = "returned" /\ c_kind = "tool"
    /\ Len(c_possible_dates) = 4
    /\ Len(ReturnedRanges) = 3
    /\ c_possible_dates[4].total_score = ReturnedRanges[3].total_score
    /\ ReturnedRanges[1].total_score > ReturnedRanges[3].total_score

(* C16: every recommended range of a calendar strategy run for
   trip_duration_days = d spans exactly d days:
   end_date - start_date + 1 = d. *)
C16_RangeSpansDuration ==
    \A i \in 1..Len(ReturnedRanges) :
        strptime(ReturnedRanges[i].end_date) - strptime(ReturnedRanges[i].start_date) + 1
            = c_trip_duration_days

\* the dummy strategy returned a four-day range for a window starting on
\* 2025-06-28
C16_Witness ==
    /\ c_pc = "returned" /\ c_kind = "dummy"
    /\ c_trip_duration_days = 4
    /\ Len(ReturnedRanges) = 1
    /\ ReturnedRanges[1].start_date = <<2025, 7, 5>>
    /\ ReturnedRanges[1].end_date = <<2025, 7, 8>>

(* C17: for a request whose duration is at most the window length, every
   recommended range falls within the travel window:
   travel_window_start <= start_date and end_date <= travel_window_end. *)
C17_RangeWithinWindow ==
    (/\ c_pc = "returned" /\ c_result.kind = "structured"
     /\ c_trip_duration_days
            <= strptime(c_travel_window_end) - strptime(c_travel_window_start)) =>
        \A i \in 1..Len(ReturnedRanges) :
            /\ strptime(c_travel_window_start) <= strptime(ReturnedRanges[i].start_date)
            /\ strptime(ReturnedRanges[i].end_date) <= strptime(c_travel_window_end)

(***************************************************************************)
(* SpecRoute: one run of a route strategy: the agent's dummy route, the    *)
(* agent's parse of its LLM's reply, RoutePlannerTool._simulate_route_data *)
(* or the mock /routes/plan endpoint, the last two with one loop iteration *)
(* per step.                                                               *)
(***************************************************************************)
MaxWaypoints == 2

RouteKinds == {"dummy", "azure", "tool", "mock"}

RouteOrigins == {"Seattle", "Bozeman"}

WaypointNames == {"Boise", "Old Faithful"}

WaypointLists ==
    UNION { [1..n -> WaypointNames] : n \in 0..MaxWaypoints }

RInit ==
    /\ ReqAtRest /\ FmtAtRest /\ WxAtRest /\ CalAtRest /\ ParAtRest /\ AdAtRest
    /\ r_pc = "call"
    /\ r_kind \in RouteKinds
    /\ r_origin \in RouteOrigins
    /\ r_destination = "Yellowstone National Park"
    /\ r_waypoints \in WaypointLists
    /\ r_i = 0
    /\ r_route_segments = <<>>
    /\ r_total_distance = 0
    /\ r_total_duration = 0
    /\ r_result = NoResult

\* RouteAgent._get_dummy_route
RDummy ==
    /\ r_pc = "call" /\ r_kind = "dummy"
    /\ r_result' = Structured(RouteAgent_get_dummy_route(r_origin))
    /\ r_pc' = "returned"
    /\ UNCHANGED <<r_kind, r_origin, r_destination, r_waypoints, r_i, r_route_segments,
                   r_total_distance, r_total_duration>>
    /\ UNCHANGED <<reqVars, fmtVars, wxVars, calVars, parVars, adVars>>

\* RouteAgent._parse_azure_response on the reply of the agent's LLM
RAzure ==
    /\ r_pc = "call" /\ r_kind = "azure"
    /\ \E response \in SubAgentReplies :
           r_result' = Structured(RouteAgent_parse_azure_response(
                           response, r_origin, r_destination))
    /\ r_pc' = "returned"
    /\ UNCHANGED <<r_kind, r_origin, r_destination, r_waypoints, r_i, r_route_segments,
                   r_total_distance, r_total_duration>>
    /\ UNCHANGED <<reqVars, fmtVars, wxVars, calVars, parVars, adVars>>

\* _simulate_route_data and the mock endpoint up to their loop
RSimulateBegin ==
    /\ r_pc = "call" /\ r_kind \in {"tool", "mock"}
    /\ r_pc' = "loop"
    /\ UNCHANGED <<r_kind, r_origin, r_destination, r_waypoints, r_i, r_route_segments,
                   r_total_distance, r_total_duration, r_result>>
    /\ UNCHANGED <<reqVars, fmtVars, wxVars, calVars, parVars, adVars>>

\* for i in range(len(stops) - 1)
RouteForTest(stops, i) == i < Len(stops) - 1

\* what one iteration does with the distance it got
RouteIteration(stops, distance, road_names) ==
    /\ r_route_segments' =
           Append(r_route_segments, RouteSegment(stops, r_i, distance, road_names))
    /\ r_total_distance' = r_total_distance + distance
    /\ r_total_duration' = r_total_duration + distance * 60
    /\ r_i' = r_i + 1

\* one iteration of RoutePlannerTool._simulate_route_data's loop
RToolStep ==
    /\ r_pc = "loop" /\ r_kind = "tool"
    /\ LET stops == RouteStops(r_origin, r_waypoints, r_destination)
       IN  /\ RouteForTest(stops, r_i)
           /\ RouteIteration(stops,
                  simulate_distance(stops[r_i + 1], stops[r_i + 2]),
                  simulate_road_names(stops[r_i + 1], stops[r_i + 2]))
    /\ UNCHANGED <<r_pc, r_kind, r_origin, r_destination, r_waypoints, r_result>>
    /\ UNCHANGED <<reqVars, fmtVars, wxVars, calVars, parVars, adVars>>

\* one iteration of the mock endpoint's loop
RMockStep ==
    /\ r_pc = "loop" /\ r_kind = "mock"
    /\ LET points == RouteStops(r_origin, r_waypoints, r_destination)
       IN  /\ RouteForTest(points, r_i)
           /\ \E distance \in MockDistanceDraws :
                  RouteIteration(points, distance, mock_road_names(points[r_i + 2]))
    /\ UNCHANGED <<r_pc, r_kind, r_origin, r_destination, r_waypoints, r_result>>
    /\ UNCHANGED <<reqVars, fmtVars, wxVars, calVars, parVars, adVars>>

\* after the loop
RSimulateReturn ==
    /\ r_pc = "loop"
    /\ ~RouteForTest(RouteStops(r_origin, r_waypoints, r_destination), r_i)
    /\ r_result' = Structured(RouteData(r_route_segments, r_total_distance, r_total_duration))
    /\ r_pc' = "returned"
    /\ UNCHANGED <<r_kind, r_origin, r_destination, r_waypoints, r_i, r_route_segments,
                   r_total_distance, r_total_duration>>
    /\ UNCHANGED <<reqVars, fmtVars, wxVars, calVars, parVars, adVars>>

RNext == RDummy \/ RAzure \/ RSimulateBegin \/ RToolStep \/ RMockStep \/ RSimulateReturn

SpecRoute == RInit /\ [][RNext]_vars

\* the segments of the route a finished run returned
ReturnedSegments == IF r_pc = "returned" THEN r_result.value.segments ELSE <<>>

RECURSIVE SumOver(_, _)
SumOver(segments, field) ==
    IF Len(segments) = 0 THEN 0
    ELSE segments[1][field] + SumOver(Tail(segments), field)

(* C13: in every returned route, total_distance_miles equals the sum of the
   segments' distance_miles within 0.1. *)
C13_TotalDistanceIsSum ==
    r_pc = "returned" =>
        LET total == r_result.value.total_distance_miles
            sum   == SumOver(ReturnedSegments, "distance_miles")
        IN  total - sum <= 1 /\ sum - total <= 1

(* C14: in every returned route, total_duration_hours equals the sum of the
   segments' duration_minutes divided by 60, up to the rounding of the
   total to a tenth of an hour and of each segment to a minute. *)
C14_TotalDurationIsSum ==
    r_pc = "returned" =>
        LET total == 6 * r_result.value.total_duration_hours
            sum   == SumOver(ReturnedSegments, "duration_minutes")
            slack == 6 + Len(ReturnedSegments)
        IN  2 * (total - sum) <= slack /\ 2 * (sum - total) <= slack

(* C15: the segments of every returned route form a connected chain,
   segment[i].to = segment[i+1].from; a route built from origin, waypoints
   and destination (the planner tool's, the mock endpoint's) has exactly
   len(waypoints) + 1 segments, the first starting at the origin and the
   last ending at the destination. *)
C15_SegmentsFormChain ==
    r_pc = "returned" =>
        /\ \A i \in 1..(Len(ReturnedSegments) - 1) :
               ReturnedSegments[i].to = ReturnedSegments[i + 1].from
        /\ r_kind \in {"tool", "mock"} =>
               /\ Len(ReturnedSegments) = Len(r_waypoints) + 1
               /\ ReturnedSegments[1].from = r_origin
               /\ ReturnedSegments[Len(ReturnedSegments)].to = r_destination

\* the planner tool returned Seattle -> Boise -> Old Faithful -> Yellowstone
C15_Witness ==
    /\ r_pc = "returned" /\ r_kind = "tool"
    /\ r_origin = "Seattle" /\ r_waypoints = <<"Boise", "Old Faithful">>
    /\ Len(ReturnedSegments) = 3
    /\ ReturnedSegments[2].from = "Boise" /\ ReturnedSegments[2].to = "Old Faithful"
    /\ ReturnedSegments[1].distance_miles = 5062

(***************************************************************************)
(* SpecParse: an adapter in LLM-suggestions mode turns the textual reply   *)
(* of its LLM into its structured result.  A reply is the sequence of its  *)
(* characters.                                                             *)
(***************************************************************************)
MaxReplyChars == 202

Adapters == {"calendar", "weather", "route", "dining", "hotel"}

\* reply lengths around the two slice lengths
ReplyLengths ==
    {0, 1} \cup (DescriptionChars - 1)..(DescriptionChars + 1)
           \cup (ReasoningChars - 1)..MaxReplyChars

\* replies of each length, of two different contents
LLMReplies ==
    { [i \in 1..n |-> (i * k) % 7] : n \in ReplyLengths, k \in {1, 3} }

PInit ==
    /\ ReqAtRest /\ FmtAtRest /\ WxAtRest /\ CalAtRest /\ RtAtRest /\ AdAtRest
    /\ p_pc = "call"
    /\ p_adapter \in Adapters
    /\ p_response \in LLMReplies
    /\ p_result = <<>>

\* CalendarAgent.get_optimal_dates, mode 2, after the LLM replied
PCalendar ==
    /\ p_pc = "call" /\ p_adapter = "calendar"
    /\ p_result' = CalendarAgent_parse_azure_response(
                       p_response, <<2025, 6, 1>>, <<2025, 6, 30>>, 4)
    /\ p_pc' = "returned"
    /\ UNCHANGED <<p_adapter, p_response>>
    /\ UNCHANGED <<reqVars, fmtVars, wxVars, calVars, rtVars, adVars>>

\* WeatherAgent.get_forecast, mode 2, after the LLM replied
PWeather ==
    /\ p_pc = "call" /\ p_adapter = "weather"
    /\ p_result' = WeatherAgent_parse_azure_response(
                       p_response, <<2025, 6, 1>>, <<2025, 6, 3>>)
    /\ p_pc' = "returned"
    /\ UNCHANGED <<p_adapter, p_response>>
    /\ UNCHANGED <<reqVars, fmtVars, wxVars, calVars, rtVars, adVars>>

\* RouteAgent.plan_route, mode 2, after the LLM replied
PRoute ==
    /\ p_pc = "call" /\ p_adapter = "route"
    /\ p_result' = RouteAgent_parse_azure_response(
                       p_response, "Denver", "Yellowstone National Park")
    /\ p_pc' = "returned"
    /\ UNCHANGED <<p_adapter, p_response>>
    /\ UNCHANGED <<reqVars, fmtVars, wxVars, calVars, rtVars, adVars>>

\* DiningAgent.get_recommendations, mode 2, after the LLM replied
PDining ==
    /\ p_pc = "call" /\ p_adapter = "dining"
    /\ p_result' = DiningAgent_parse_azure_response(p_response, <<"Old Faithful">>)
    /\ p_pc' = "returned"
    /\ UNCHANGED <<p_adapter, p_response>>
    /\ UNCHANGED <<reqVars, fmtVars, wxVars, calVars, rtVars, adVars>>

\* HotelAgent.get_recommendations, mode 2, after the LLM replied
PHotel ==
    /\ p_pc = "call" /\ p_adapter = "hotel"
    /\ p_result' = HotelAgent_parse_azure_response(
                       p_response, <<"Old Faithful">>, <<2025, 6, 1>>, <<2025, 6, 3>>)
    /\ p_pc' = "returned"
    /\ UNCHANGED <<p_adapter, p_response>>
    /\ UNCHANGED <<reqVars, fmtVars, wxVars, calVars, rtVars, adVars>>

PNext == PCalendar \/ PWeather \/ PRoute \/ PDining \/ PHotel

SpecParse == PInit /\ [][PNext]_vars

\* `kept` is the first n characters of `reply`, all of it when it has no more
IsPrefixOfLength(kept, reply, n) ==
    /\ Len(kept) = (IF Len(reply) <= n THEN Len(reply) ELSE n)
    /\ \A i \in 1..Len(kept) : kept[i] = reply[i]

\* the fields a caller could look for the reply in
ReplyFields == {"reasoning", "raw", "description", "response", "output"}

(* C20, as claimed: the result an adapter makes of its LLM's reply holds the
   full reply, unmodified and untruncated, in a reasoning or raw field. *)
C20_ReplyKeptVerbatim ==
    p_pc = "returned" =>
        \/ ("reasoning" \in DOMAIN p_result /\ p_result.reasoning = p_response)
        \/ ("raw" \in DOMAIN p_result /\ p_result.raw = p_response)

(* C20, amended: CalendarAgent keeps the first 200 characters of the reply
   in `reasoning` (all of the reply, unmodified, when it has at most 200);
   WeatherAgent puts the first 100 characters of the reply in the
   description of every forecast entry; RouteAgent, DiningAgent and
   HotelAgent keep no part of the reply: their results have no field for
   it. *)
C20_ReplyKeptAsPrefix ==
    p_pc = "returned" =>
        /\ p_adapter = "calendar" =>
               IsPrefixOfLength(p_result.reasoning, p_response, 200)
        /\ p_adapter = "weather" =>
               /\ Len(p_result.forecasts) = 3
               /\ \A i \in 1..Len(p_result.forecasts) :
                      IsPrefixOfLength(p_result.forecasts[i].description, p_response, 100)
        /\ p_adapter \in {"route", "dining", "hotel"} =>
               DOMAIN p_result \cap ReplyFields = {}

\* the calendar adapter cut a reply of 201 characters down to 200
C20_Witness ==
    /\ p_pc = "returned" /\ p_adapter = "calendar"
    /\ Len(p_response) = 201
    /\ Len(p_result.reasoning) = 200
    /\ p_result.reasoning[200] = p_response[200]

(***************************************************************************)
(* SpecAdapter: the Config singleton, the adapters' constructors and their *)
(* calls.  An adapter's constructor asks Config() for the instance (the    *)
(* first call reads APP_MODE into app_mode) and builds its LLM client,     *)
(* tools and agent executor in one of two branches; every call branches    *)
(* three ways on the config's mode.                                        *)
(***************************************************************************)
MaxCalls == 2

AppModes == {1, 2, 3}

\* the tools the second branch of an adapter's constructor lists
DomainTools(adapter) ==
    CASE adapter = "calendar" -> {"CalendarOptimizerTool", "BingSearchTool"}
      [] adapter = "route"    -> {"RoutePlannerTool", "BingSearchTool"}
      [] adapter = "dining"   -> {"RestaurantTool", "ReservationTool", "BingSearchTool"}
      [] adapter = "hotel"    -> {"HotelTool", "HotelReservationTool", "BingSearchTool"}
      [] OTHER                -> {}

NotBuilt == [built |-> FALSE, mode |-> 0, agent |-> FALSE, tools |-> {}]

\* <Adapter>.__init__ with Config().app_mode = mode: `if is_azure_suggestions_mode
\* or is_live_api_mode` builds an executor without tools, `else` one with the
\* domain tools; WeatherAgent has no else branch
Constructor(adapter, mode) ==
    IF mode \in {2, 3}
    THEN [built |-> TRUE, mode |-> mode, agent |-> TRUE, tools |-> {}]
    ELSE IF adapter = "weather"
    THEN [built |-> TRUE, mode |-> mode, agent |-> FALSE, tools |-> {}]
    ELSE [built |-> TRUE, mode |-> mode, agent |-> TRUE, tools |-> DomainTools(adapter)]

\* the branch a call takes with config.app_mode = mode: whether it invokes
\* self.agent, and the tools its query tells the agent to use
CallPath(adapter, mode) ==
    CASE mode = 1 -> [path |-> "dummy", agent |-> FALSE, tools |-> {}]
      [] mode = 2 -> [path |-> "suggestion", agent |-> TRUE, tools |-> {}]
      [] OTHER    ->
           IF adapter = "calendar"
           THEN [path |-> "live", agent |-> TRUE,
                 tools |-> {"CalendarOptimizerTool", "BingSearchTool"}]
           ELSE IF adapter = "route"
           THEN [path |-> "live", agent |-> TRUE, tools |-> {}]
           ELSE [path |-> "not_implemented", agent |-> FALSE, tools |-> {}]

NoCall == [adapter |-> "", mode |-> 0, path |-> "", agent |-> FALSE, tools |-> {}]

AInit ==
    /\ ReqAtRest /\ FmtAtRest /\ WxAtRest /\ CalAtRest /\ RtAtRest /\ ParAtRest
    /\ a_env \in AppModes
    /\ a_config = 0
    /\ a_built = [ad \in Adapters |-> NotBuilt]
    /\ a_last = NoCall
    /\ a_calls = 0

\* the process environment gets another APP_MODE
ASetEnv ==
    /\ \E m \in AppModes \ {a_env} : a_env' = m
    /\ UNCHANGED <<a_config, a_built, a_last, a_calls>>
    /\ UNCHANGED <<reqVars, fmtVars, wxVars, calVars, rtVars, parVars>>

\* Config(): __new__ makes and initializes the instance once, then returns it
Config_new == IF a_config = 0 THEN a_env ELSE a_config

\* an adapter is constructed (OrchestratorAgent.__init__ constructs each once)
AConstruct ==
    /\ \E ad \in Adapters :
         /\ ~a_built[ad].built
         /\ a_built' = [a_built EXCEPT ![ad] = Constructor(ad, Config_new)]
    /\ a_config' = Config_new
    /\ UNCHANGED <<a_env, a_last, a_calls>>
    /\ UNCHANGED <<reqVars, fmtVars, wxVars, calVars, rtVars, parVars>>

\* an adapter's operation is called: it branches on self.config.is_*_mode
ACall ==
    /\ a_calls < MaxCalls
    /\ \E ad \in Adapters :
         /\ a_built[ad].built
         /\ a_last' = [adapter |-> ad, mode |-> a_config] @@ CallPath(ad, a_config)
    /\ a_calls' = a_calls + 1
    /\ UNCHANGED <<a_env, a_config, a_built>>
    /\ UNCHANGED <<reqVars, fmtVars, wxVars, calVars, rtVars, parVars>>

ANext == ASetEnv \/ AConstruct \/ ACall

SpecAdapter == AInit /\ [][ANext]_vars

(* C27: each adapter picks its strategy at construction and every later
   call uses it: the call invokes the agent executor exactly when the
   constructor built one, the tools the call relies on are the tools the
   constructor gave the executor, and the mode a call observes is the mode
   the constructor observed. *)
C27_StrategyFixedAtConstruction ==
    a_calls > 0 =>
        LET b == a_built[a_last.adapter]
        IN  /\ a_last.agent = b.agent
            /\ a_last.tools = b.tools
            /\ a_last.mode = b.mode

====
